---- MODULE Spec2Model ----
(***************************************************************************)
(* Calvin Instinctus: the reflex layer of a self-balancing robot on a      *)
(* dual-core board.  The M4 core runs the balance loop (BalanceIMU, its    *)
(* observers, the motor interlock); the M7 core runs display and relay.    *)
(* The two cores share two event queues, m4EventQueue and m7EventQueue.    *)
(*                                                                         *)
(* Three specifications are given over one set of variables:               *)
(*   Spec         the two cores using the event queues, every queue        *)
(*                operation split into taking the hardware semaphore and   *)
(*                the body that runs under it;                             *)
(*   SpecBalance  the M4 balance loop: BalanceIMU::update() with its       *)
(*                observers, the interlock and the event bridge, each      *)
(*                handler one step;                                        *)
(*   SpecReports  the report handlers of M4 filling m7EventQueue while M7  *)
(*                drains it, each handler one step.                        *)
(* Angles are fixed-point, in thousandths of a degree.                     *)
(***************************************************************************)
EXTENDS Integers, Sequences, FiniteSets

VARIABLES
    queue,      \* [QueueIds -> ring]: items, writeIndex, readIndex
    holder,     \* [QueueIds -> core holding the queue's semaphore, or "none"]
    pc,         \* [Cores -> the queue operation the core is inside]
    sent,       \* [Cores -> number of send calls made (the message counter)]
    lastResult, \* [Cores -> return value of the core's last send call]
    out,        \* [Cores -> what the core's last pop call returned]
    pending,    \* history: [QueueIds -> accepted records not yet popped, in order]
    nAccepted,  \* history: [QueueIds -> number of accepted pushes]
    nPopped,    \* history: [QueueIds -> number of successful pops]
    running,             \* M4 has left setup() and runs loop()
    observers,           \* BalanceIMU::observers[0 .. observerCount-1]
    currentTiltAngle,    \* BalanceIMU::currentTiltAngle, in thousandths of a degree
    reading,             \* BalanceIMU::accelX .. gyroZ, the values the last read stored
    lastUpdateTime,      \* BalanceIMU::lastUpdateTime, in milliseconds
    emergencyStopActive, \* BalanceMotorController::emergencyStopActive
    ledRedBlinks,        \* number of blinkLED(LEDR) calls made by M4
    calls,               \* history: the observer callbacks the last update() made
    cmds,                \* history: the velocity commands the last update() issued
    prevTilt,            \* history: currentTiltAngle before the last update()
    wasStopped,          \* history: emergencyStopActive before the last update()
    lastReadOK,          \* history: the last update() got a reading
    nUpdates,            \* history: number of update() calls
    nReports,            \* history: number of report handler runs on M4
    dropped,             \* history: pushes refused during the last handler
    lastAdd,             \* history: argument and return value of the last addObserver call
    nAdds,               \* history: number of addObserver calls
    tofPc,               \* the place of M4 in the ToF bring-up of setup(), or "loop"
    xshut,               \* [Sensors -> level of the sensor's XSHUT line]
    devAddr,             \* [Sensors -> the bus address the device answers at]
    tofInitialized,      \* [Sensors -> ToFSensor::_initialized]
    currentDistance,     \* [Sensors -> ToFSensor::_currentDistance]
    busCmd,              \* history: the last bus command to a ToF address and who answered
    nPolls,              \* history: number of ToFSensor::update() calls
    lastPoll,            \* history: the sensor of the last update() and what it answered
    tofObserver,         \* [Sensors -> ToFSensor::_observer, by its threshold]
    imuInit,             \* history: what balanceIMU.initialize() returned in setup()
    m7Millis,            \* currentMillis of the last loop() iteration on M7
    lastEventTime,       \* lastEventTime of the M7 sketch
    eventsReceived,      \* eventsReceived of the M7 sketch
    warnings,            \* history: the times at which "WARNING: No M4 events" was shown
    nLoops,              \* history: number of loop() iterations on M7
    handled,             \* history: the switch branches the last drain of a queue took
    built,               \* history: the text the last producer formatted, in full
    gotEvent,            \* history: the event the last pop of a consumer returned
    steadyTilt,          \* history: the accelerometer tilt held since nSteady updates
    nSteady,             \* history: number of successive updates with that tilt
    sketch,              \* the pair of sketches the board runs, "none" before power-on
    bootPc,              \* [Cores -> the steps of setup() still to run, then "loop"]
    initLog,             \* history: [QueueIds -> the initialize() calls made on the queue]
    usedBefore,          \* history: [QueueIds -> a push or pop ran before any initialize()]
    tofActive,           \* [Sensors -> tofForwardActive / tofRearActive]
    obstacleDetected,    \* [Sensors -> forwardObstacleDetected / rearObstacleDetected]
    distanceMm,          \* [Sensors -> distanceForward / distanceRear, in millimetres]
    tofPass,             \* history: [Sensors -> what the last updateTofSensors() did]
    sinceWarning,        \* history: [Sensors -> readings since the sensor's last warning]
    loopMillis,          \* currentMillis of the last loop() iteration on M4
    lastRun,             \* [Tasks -> lastBalanceUpdate, lastTofUpdate, lastStatusReport]
    sinceRun,            \* history: [Tasks -> milliseconds since the task last ran]
    loopLog,             \* history: what the last loop() iteration on M4 ran and popped
    nIterations,         \* history: number of loop() iterations on M4
    resetAt,             \* history: nUpdates at the reset that awaits its update(), or -1
    lines,               \* [0 .. MAX_LINES - 1 -> the characters of lines[i] up to its '\0']
    lineColors,          \* [0 .. MAX_LINES - 1 -> lineColors[i]]
    currentLine,         \* currentLine of the terminal display
    currentColumn,       \* currentColumn of the terminal display
    screenFull,          \* screenFull of the terminal display
    lastCall,            \* history: the last call made on the terminal display
    nCalls               \* history: number of calls made on the terminal display

chanVars == <<queue, holder, pc, sent, lastResult, out, pending, nAccepted, nPopped>>

balVars == <<running, observers, currentTiltAngle, reading, lastUpdateTime,
             emergencyStopActive,
             ledRedBlinks, calls, cmds, prevTilt, wasStopped, lastReadOK, nUpdates,
             nReports, dropped>>

regVars == <<lastAdd, nAdds>>

tofVars ==
    <<tofPc, xshut, devAddr, tofInitialized, currentDistance, busCmd, nPolls, lastPoll,
      tofObserver>>

\* the state outside the event queues and the balance loop
imuVars == <<imuInit>>

m7Vars == <<m7Millis, lastEventTime, eventsReceived, warnings, nLoops>>

dispVars == <<handled>>

payVars == <<built, gotEvent>>

cnvVars == <<steadyTilt, nSteady>>

iniVars == <<sketch, bootPc, initLog, usedBefore>>

hwVars == <<tofActive, obstacleDetected, distanceMm, tofPass, sinceWarning, loopMillis,
            lastRun, sinceRun, loopLog, nIterations>>

rstVars == <<resetAt>>

termVars ==
    <<lines, lineColors, currentLine, currentColumn, screenFull, lastCall, nCalls>>

\* the state of the parts modelled on their own
extVars == <<payVars, cnvVars, iniVars, hwVars, rstVars, termVars>>

\* the state outside the queues and the balance loop that the exchange of an event
\* leaves alone
notPayVars ==
    <<regVars, tofVars, imuVars, m7Vars, dispVars, cnvVars, iniVars, hwVars, rstVars,
      termVars>>

\* the state outside the queues and the balance loop that the hardware-validation
\* sketch leaves alone
notHwVars ==
    <<regVars, tofVars, imuVars, m7Vars, dispVars, payVars, cnvVars, iniVars, rstVars,
      termVars>>

\* the state outside the balance loop that a reset leaves alone
notRstVars ==
    <<regVars, tofVars, imuVars, m7Vars, dispVars, payVars, cnvVars, iniVars, hwVars,
      termVars>>

\* the state that a call on the terminal display leaves alone
notTermVars ==
    <<regVars, tofVars, imuVars, m7Vars, dispVars, payVars, cnvVars, iniVars, hwVars,
      rstVars>>

otherVars == <<regVars, tofVars, imuVars, m7Vars, dispVars, extVars>>

\* the balance loop's state that Commit does not set
balVarsButQueue ==
    <<running, observers, currentTiltAngle, reading, lastUpdateTime,
      emergencyStopActive, calls, cmds, prevTilt, wasStopped, lastReadOK, nUpdates,
      nReports>>

vars == <<chanVars, balVars, otherVars>>

-----------------------------------------------------------------------------
(* Bounds of the model *)

\* send calls (sendToM4 / sendToM7 / broadcastEvent) made by the two cores together
MaxMsgs == 8

\* calls of BalanceIMU::update()
MaxUpdates == 2

\* calls of BalanceIMU::addObserver
MaxAdds == 6

\* calls of ToFSensor::update()
MaxPolls == 3

\* the returns of one ranging measurement
MaxReturns == 2

\* loop() iterations on M7 against the clock
MaxLoops == 4

\* events of any kind sent to the other core
MaxPosts == 2

\* runs of the report handlers on M4 (status report, obstacle report, IMU data)
MaxReports == 5

-----------------------------------------------------------------------------
(* The event queue (InstinctusKit EventQueue) *)

QUEUE_SIZE == 6

Cores == {"M4", "M7"}

QueueIds == {"m4", "m7"}

\* the core that drains each queue
Consumer(q) == IF q = "m4" THEN "M4" ELSE "M7"

OwnQueue(c) == IF c = "M4" THEN "m4" ELSE "m7"

PeerQueue(c) == IF c = "M4" THEN "m7" ELSE "m4"

Slots == 0 .. (QUEUE_SIZE - 1)

\* struct EventItem { EventType type; char text[..]; bool read; }
EventItem(type, text) == [type |-> type, text |-> text, read |-> FALSE]

FreeItem == [type |-> "NONE", text |-> <<>>, read |-> TRUE]

\* what the producer and the consumer see of a slot: type and text
Payload(item) == [type |-> item.type, text |-> item.text]

\* EventQueue::initialize(): every slot consumed, both indices at slot 0
InitializedQueue ==
    [items |-> [i \in Slots |-> FreeItem], writeIndex |-> 0, readIndex |-> 0]

\* full: the slot at the write index still holds an unconsumed record
QFull(r) == ~ r.items[r.writeIndex].read

\* empty: the slot at the read index has been consumed
QEmpty(r) == r.items[r.readIndex].read

\* the number of unconsumed records (getM4QueueCount / getM7QueueCount)
QCount(r) == Cardinality({i \in Slots : ~ r.items[i].read})

getM4QueueCount == QCount(queue["m4"])

getM7QueueCount == QCount(queue["m7"])

\* a variant of push that writes the slot without looking at the consumed flag
PushOverwriting(r, type, text) ==
    [ok |-> TRUE,
     ring |-> [r EXCEPT !.items[r.writeIndex] = EventItem(type, text),
                        !.writeIndex = (r.writeIndex + 1) % QUEUE_SIZE]]

\* EventQueue::push, the part under the semaphore: refuse when full, else copy
\* the record into the slot at the write index and advance the index
QPush(r, type, text) ==
    IF QFull(r)
    THEN [ok |-> FALSE, ring |-> r]
    ELSE [ok |-> TRUE,
          ring |-> [r EXCEPT !.items[r.writeIndex] = EventItem(type, text),
                             !.writeIndex = (r.writeIndex + 1) % QUEUE_SIZE]]

\* a variant of pop that takes the newest record (a stack, not a queue)
PopNewest(r) ==
    LET last == (r.writeIndex + QUEUE_SIZE - 1) % QUEUE_SIZE
    IN  IF QEmpty(r)
        THEN [ok |-> FALSE, ring |-> r, item |-> FreeItem]
        ELSE [ok |-> TRUE,
              ring |-> [r EXCEPT !.items[last] = FreeItem, !.writeIndex = last],
              item |-> r.items[last]]

\* a variant of pop that advances the read index but leaves the slot unconsumed
PopNotMarking(r) ==
    IF QEmpty(r)
    THEN [ok |-> FALSE, ring |-> r, item |-> FreeItem]
    ELSE [ok |-> TRUE,
          ring |-> [r EXCEPT !.readIndex = (r.readIndex + 1) % QUEUE_SIZE],
          item |-> r.items[r.readIndex]]

\* a variant of pop that moves the read index on even when it reports empty
PopAdvancingOnEmpty(r) ==
    IF QEmpty(r)
    THEN [ok |-> FALSE,
          ring |-> [r EXCEPT !.readIndex = (r.readIndex + 1) % QUEUE_SIZE],
          item |-> FreeItem]
    ELSE [ok |-> TRUE,
          ring |-> [r EXCEPT !.items[r.readIndex] = FreeItem,
                             !.readIndex = (r.readIndex + 1) % QUEUE_SIZE],
          item |-> r.items[r.readIndex]]

\* EventQueue::pop, the part under the semaphore: report empty, else copy the
\* record out, mark the slot consumed and advance the read index.  A consumed
\* slot's stale type and text are never read again; the model drops them.
QPop(r) ==
    IF QEmpty(r)
    THEN [ok |-> FALSE, ring |-> r, item |-> FreeItem]
    ELSE [ok |-> TRUE,
          ring |-> [r EXCEPT !.items[r.readIndex] = FreeItem,
                             !.readIndex = (r.readIndex + 1) % QUEUE_SIZE],
          item |-> r.items[r.readIndex]]

\* the unconsumed records of a ring in the order pop would return them
RECURSIVE UnreadFrom(_, _, _)
UnreadFrom(r, i, n) ==
    IF n = 0 \/ r.items[i].read
    THEN <<>>
    ELSE <<Payload(r.items[i])>> \o UnreadFrom(r, (i + 1) % QUEUE_SIZE, n - 1)

UnreadInOrder(r) == UnreadFrom(r, r.readIndex, QUEUE_SIZE)

-----------------------------------------------------------------------------
(* The two cores using the queues *)

Idle == [op |-> "idle", q |-> "none", type |-> "NONE", text |-> <<>>, rest |-> <<>>]

NoEvent == [ok |-> FALSE, type |-> "NONE", text |-> <<>>]

\* "ping:%lu" with pingCount: each send call carries the sender's message counter
MsgText(c) == <<c, sent[c]>>

\* a send call starts: the core takes the semaphore of the first target queue.
\* The caller's locals of the previous call (ok, eventType, eventData) are gone.
BeginSend(c, targets, type) ==
    /\ sent["M4"] + sent["M7"] < MaxMsgs
    /\ holder[Head(targets)] = "none"
    /\ holder' = [holder EXCEPT ![Head(targets)] = c]
    /\ pc' = [pc EXCEPT ![c] = [op |-> "push", q |-> Head(targets), type |-> type,
                                text |-> MsgText(c), rest |-> Tail(targets)]]
    /\ sent' = [sent EXCEPT ![c] = @ + 1]
    /\ lastResult' = [lastResult EXCEPT ![c] = TRUE]
    /\ out' = [out EXCEPT ![c] = NoEvent]
    /\ UNCHANGED <<queue, pending, nAccepted, nPopped>>

\* EventBroadcaster::sendToM7(type, msg), called in the M4 loop
sendToM7(type) ==
    /\ pc["M4"].op = "idle"
    /\ BeginSend("M4", <<"m7">>, type)

\* EventBroadcaster::sendToM4(type, msg), called in the M7 loop
sendToM4(type) ==
    /\ pc["M7"].op = "idle"
    /\ BeginSend("M7", <<"m4">>, type)

\* EventBroadcaster::broadcastEvent(type, msg) at the end of the M7 setup():
\* one push into each queue
broadcastEvent(type) ==
    /\ pc["M7"].op = "setup"
    /\ BeginSend("M7", <<"m4", "m7">>, type)

\* a variant of the push body that refuses the record when the other queue is full
PushBodyCoupled(c) ==
    LET q == pc[c].q
        res == IF \E p \in QueueIds \ {q} : QFull(queue[p])
               THEN [ok |-> FALSE, ring |-> queue[q]]
               ELSE QPush(queue[q], pc[c].type, pc[c].text)
    IN  /\ pc[c].op = "push"
        /\ holder[q] = c
        /\ queue' = [queue EXCEPT ![q] = res.ring]
        /\ holder' = [holder EXCEPT ![q] = "none"]
        /\ lastResult' = [lastResult EXCEPT ![c] = @ /\ res.ok]
        /\ pending' = [pending EXCEPT ![q] =
                          IF res.ok
                          THEN Append(@, [type |-> pc[c].type, text |-> pc[c].text])
                          ELSE @]
        /\ nAccepted' = [nAccepted EXCEPT ![q] = IF res.ok THEN @ + 1 ELSE @]
        /\ pc' = [pc EXCEPT ![c] =
                     IF pc[c].rest = <<>>
                     THEN Idle
                     ELSE [pc[c] EXCEPT !.op = "next"]]
        /\ UNCHANGED <<sent, out, nPopped>>

\* the push body runs under the semaphore, which is then released
PushBody(c) ==
    LET q == pc[c].q
        res == QPush(queue[q], pc[c].type, pc[c].text)
    IN  /\ pc[c].op = "push"
        /\ holder[q] = c
        /\ queue' = [queue EXCEPT ![q] = res.ring]
        /\ holder' = [holder EXCEPT ![q] = "none"]
        /\ lastResult' = [lastResult EXCEPT ![c] = @ /\ res.ok]
        /\ pending' = [pending EXCEPT ![q] =
                          IF res.ok
                          THEN Append(@, [type |-> pc[c].type, text |-> pc[c].text])
                          ELSE @]
        /\ nAccepted' = [nAccepted EXCEPT ![q] = IF res.ok THEN @ + 1 ELSE @]
        /\ pc' = [pc EXCEPT ![c] =
                     IF pc[c].rest = <<>>
                     THEN Idle
                     ELSE [pc[c] EXCEPT !.op = "next"]]
        /\ UNCHANGED <<sent, out, nPopped>>

\* broadcastEvent goes on to its second queue
BroadcastNext(c) ==
    LET q == Head(pc[c].rest)
    IN  /\ pc[c].op = "next"
        /\ holder[q] = "none"
        /\ holder' = [holder EXCEPT ![q] = c]
        /\ pc' = [pc EXCEPT ![c] = [pc[c] EXCEPT !.op = "push", !.q = q,
                                                 !.rest = Tail(pc[c].rest)]]
        /\ UNCHANGED <<queue, sent, lastResult, out, pending, nAccepted, nPopped>>

\* a variant of pop that goes into the body without waiting for the semaphore
BeginPopNoWait(c) ==
    /\ pc[c].op = "idle"
    /\ holder' = [holder EXCEPT ![OwnQueue(c)] = c]
    /\ pc' = [pc EXCEPT ![c] = [Idle EXCEPT !.op = "pop", !.q = OwnQueue(c)]]
    /\ lastResult' = [lastResult EXCEPT ![c] = TRUE]
    /\ out' = [out EXCEPT ![c] = NoEvent]
    /\ UNCHANGED <<queue, sent, pending, nAccepted, nPopped>>

\* m4EventQueue.pop(..) on M4, m7EventQueue.pop(..) on M7: take the semaphore
BeginPop(c) ==
    /\ pc[c].op = "idle"
    /\ holder[OwnQueue(c)] = "none"
    /\ holder' = [holder EXCEPT ![OwnQueue(c)] = c]
    /\ pc' = [pc EXCEPT ![c] = [Idle EXCEPT !.op = "pop", !.q = OwnQueue(c)]]
    /\ lastResult' = [lastResult EXCEPT ![c] = TRUE]
    /\ out' = [out EXCEPT ![c] = NoEvent]
    /\ UNCHANGED <<queue, sent, pending, nAccepted, nPopped>>

\* the pop body runs under the semaphore, which is then released
PopBody(c) ==
    LET q == pc[c].q
        res == QPop(queue[q])
    IN  /\ pc[c].op = "pop"
        /\ holder[q] = c
        /\ queue' = [queue EXCEPT ![q] = res.ring]
        /\ holder' = [holder EXCEPT ![q] = "none"]
        /\ out' = [out EXCEPT ![c] =
                      IF res.ok
                      THEN [ok |-> TRUE, type |-> res.item.type, text |-> res.item.text]
                      ELSE NoEvent]
        /\ pending' = [pending EXCEPT ![q] = IF res.ok /\ @ # <<>> THEN Tail(@) ELSE @]
        /\ nPopped' = [nPopped EXCEPT ![q] = IF res.ok THEN @ + 1 ELSE @]
        /\ pc' = [pc EXCEPT ![c] = Idle]
        /\ UNCHANGED <<sent, lastResult, nAccepted>>

ChanInit ==
    /\ queue = [q \in QueueIds |-> InitializedQueue]
    /\ holder = [q \in QueueIds |-> "none"]
    /\ pc = [c \in Cores |-> IF c = "M7" THEN [Idle EXCEPT !.op = "setup"] ELSE Idle]
    /\ sent = [c \in Cores |-> 0]
    /\ lastResult = [c \in Cores |-> TRUE]
    /\ out = [c \in Cores |-> NoEvent]
    /\ pending = [q \in QueueIds |-> <<>>]
    /\ nAccepted = [q \in QueueIds |-> 0]
    /\ nPopped = [q \in QueueIds |-> 0]

BalInit ==
    /\ running = FALSE
    /\ observers = <<>>
    /\ currentTiltAngle = 0
    /\ reading = [accel |-> [x |-> 0, z |-> 0, atan2 |-> 0], gyro |-> 0]
    /\ lastUpdateTime = 0
    /\ emergencyStopActive = FALSE
    /\ calls = <<>>
    /\ cmds = <<>>
    /\ ledRedBlinks = 0
    /\ lastReadOK = FALSE
    /\ prevTilt = 0
    /\ wasStopped = FALSE
    /\ nUpdates = 0
    /\ nReports = 0
    /\ dropped = 0

RegInit ==
    /\ lastAdd = [arg |-> "none", ok |-> FALSE]
    /\ nAdds = 0

\* the two VL53L4CX sensors on Wire
Sensors == {"rear", "front"}

\* the factory default address of a VL53L4CX
DEFAULT_ADDRESS == 41

\* no command has gone to a ToF address yet
NoCmd == [addr |-> 0, answering |-> {}]

\* power-on: the XSHUT pins are not driven yet and the sensors run, each answering
\* at the default address, until setup() takes the lines low
ToFInit ==
    /\ tofPc = <<"start">>
    /\ xshut = [s \in Sensors |-> "high"]
    /\ devAddr = [s \in Sensors |-> DEFAULT_ADDRESS]
    /\ tofInitialized = [s \in Sensors |-> FALSE]
    /\ currentDistance = [s \in Sensors |-> -1]
    /\ busCmd = NoCmd
    /\ nPolls = 0
    /\ lastPoll = [sensor |-> "none",
                   m |-> [flag |-> "clear", data |-> "none", returns |-> <<>>]]
    /\ tofObserver = [s \in Sensors |-> [set |-> FALSE, threshold |-> 0]]

ImuInit == imuInit = "none"

M7Init ==
    /\ m7Millis = 0
    /\ lastEventTime = 0
    /\ eventsReceived = 0
    /\ warnings = <<>>
    /\ nLoops = 0

DispInit == handled = <<>>

PayInit ==
    /\ built = <<>>
    /\ gotEvent = NoEvent

CnvInit ==
    /\ steadyTilt = 0
    /\ nSteady = 0

IniInit ==
    /\ sketch = "none"
    /\ bootPc = [c \in Cores |-> <<"off">>]
    /\ initLog = [q \in QueueIds |-> <<>>]
    /\ usedBefore = [q \in QueueIds |-> FALSE]

\* the periodic tasks of loop() in the hardware-validation sketch
Tasks == {"balance", "tof", "status"}

\* a sensor that updateTofSensors() has not looked at
NoPass == [read |-> "none", distance |-> 0, was |-> FALSE, warned |-> FALSE,
           cleared |-> FALSE]

\* the hardware-validation sketch before setup(): the globals as initialized
HwInit ==
    /\ tofActive = [s \in Sensors |-> FALSE]
    /\ obstacleDetected = [s \in Sensors |-> FALSE]
    /\ distanceMm = [s \in Sensors |-> 0]
    /\ tofPass = [s \in Sensors |-> NoPass]
    /\ sinceWarning = [s \in Sensors |-> "never"]
    /\ loopMillis = 0
    /\ lastRun = [t \in Tasks |-> 0]
    /\ sinceRun = [t \in Tasks |-> 0]
    /\ loopLog = [ran |-> [t \in Tasks |-> 0], elapsed |-> [t \in Tasks |-> 0],
                  pops |-> 0, waiting |-> 0]
    /\ nIterations = 0

RstInit == resetAt = -1

\* TerminalDisplay: static const int MAX_LINES, MAX_LINE_LENGTH
MAX_LINES == 20

MAX_LINE_LENGTH == 66

LineIds == 0 .. MAX_LINES - 1

NoCall ==
    [op |-> "none", null |-> FALSE, text |-> <<>>, wasFull |-> FALSE, done |-> TRUE,
     iterations |-> 0]

\* TerminalDisplay::TerminalDisplay(): every line empty and in the default colour, the
\* cursor at the top left
TermInit ==
    /\ lines = [i \in LineIds |-> <<>>]
    /\ lineColors = [i \in LineIds |-> "TEXT_COLOR"]
    /\ currentLine = 0
    /\ currentColumn = 0
    /\ screenFull = FALSE
    /\ lastCall = NoCall
    /\ nCalls = 0

ExtInit == PayInit /\ CnvInit /\ IniInit /\ HwInit /\ RstInit /\ TermInit

OtherInit == RegInit /\ ToFInit /\ ImuInit /\ M7Init /\ DispInit /\ ExtInit

Init == ChanInit /\ BalInit /\ OtherInit

\* the queue operations of the two loops, in any interleaving
Next ==
    \/ sendToM7("BALANCE_IMU_DATA") /\ UNCHANGED <<balVars, otherVars>>
    \/ sendToM4("EMERGENCY_STOP") /\ UNCHANGED <<balVars, otherVars>>
    \/ broadcastEvent("SYSTEM_STARTUP") /\ UNCHANGED <<balVars, otherVars>>
    \/ \E c \in Cores :
          \/ PushBody(c) /\ UNCHANGED <<balVars, otherVars>>
          \/ BroadcastNext(c) /\ UNCHANGED <<balVars, otherVars>>
          \/ BeginPop(c) /\ UNCHANGED <<balVars, otherVars>>
          \/ PopBody(c) /\ UNCHANGED <<balVars, otherVars>>

Spec == Init /\ [][Next]_vars

-----------------------------------------------------------------------------
(* Fixed-point arithmetic: angles in thousandths of a degree *)

Abs(x) == IF x > 0 THEN x ELSE -x

\* a / b rounded to the nearest integer, halves away from zero
RoundDiv(a, b) ==
    IF a >= 0 THEN (2 * a + b) \div (2 * b) ELSE -((2 * (-a) + b) \div (2 * b))

\* accelerometer samples (accelX, accelZ) in mm/s^2, each with atan2(accelX, accelZ)
\* in thousandths of a degree
AccelSamples ==
    { [x |-> 0,    z |-> 9800, atan2 |-> 0],
      [x |-> 7507, z |-> 6299, atan2 |-> 50000] }

\* gyroscope rates in thousandths of a radian per second
GyroRates == {-1000, 0, 1000}

\* the readings one update() can get: at rest level, at rest leaning 50 degrees,
\* and level while turning about the axis either way
Readings ==
    { r \in [accel : AccelSamples, gyro : GyroRates] :
          r.gyro = 0 \/ r.accel.atan2 = 0 }

\* milliseconds between two update() calls: the 10 ms loop delay, or a stalled loop
DeltaTimes == {10, 1000}

\* the inputs of one update(): a reading and the time since the last one.  The time
\* enters the filter only through the gyroscope term, so a stalled loop is tried with
\* the turning readings only.
UpdateInputs ==
    {in \in [r : Readings, dt : DeltaTimes] : in.r.gyro # 0 \/ in.dt = 10}

\* BalanceIMU::calculateTiltFromAccel(): atan2(accelX, accelZ) * 180 / PI
calculateTiltFromAccel(sample) == sample.atan2

\* gyroRate * 180.0 / PI, from thousandths of rad/s to thousandths of deg/s
\* (180 / PI = 57.2958)
RadToDeg(g) == RoundDiv(g * 572958, 10000)

\* millis() is an unsigned long of 32 bits.  A timestamp is held as its bit pattern read
\* as a signed number, so 4294967291, five milliseconds before the counter wraps, is
\* -5, and the timestamps after the wrap are 0, 1, 2, ..
MaxInt32 == 2147483647
MinInt32 == -2147483647 - 1

\* millis() d milliseconds after it returned t
MillisAfter(t, d) ==
    IF t > MaxInt32 - d THEN MinInt32 + (d - 1 - (MaxInt32 - t)) ELSE t + d

\* BalanceIMU::update(): (currentTime - lastUpdateTime), an unsigned subtraction, in
\* milliseconds; the model's timestamps are less than 2^31 ms apart
DeltaTime(currentTime, lastTime) ==
    IF currentTime >= lastTime
    THEN currentTime - lastTime
    ELSE (currentTime - MinInt32) + (MaxInt32 - lastTime) + 1

\* a variant of the filter that leaves the accelerometer out
FilterGyroOnly(tilt, accelTilt, gyroRate, deltaMs) ==
    tilt + RoundDiv(RadToDeg(gyroRate) * deltaMs, 1000)

\* BalanceIMU::applyComplementaryFilter with TILT_ALPHA = 0.98
applyComplementaryFilter(tilt, accelTilt, gyroRate, deltaMs) ==
    LET gyroAngle == tilt + RoundDiv(RadToDeg(gyroRate) * deltaMs, 1000)
    IN  RoundDiv(98 * gyroAngle + 2 * accelTilt, 100)

\* a variant of the change test that also fires at exactly one degree
TiltChangedAtLeast(newTilt, oldTilt) == Abs(newTilt - oldTilt) >= 1000

\* update(): tiltChange > 1.0
TiltChanged(newTilt, oldTilt) == Abs(newTilt - oldTilt) > 1000

\* update(): abs(currentTiltAngle) > 45.0
IsEmergency(tilt) == Abs(tilt) > 45000

\* sprintf(angleStr, "%.2f", angle)
FormatAngle(angle) == <<"%.2f", RoundDiv(angle, 10)>>

\* snprintf(statusMsg, .., "T:%.1f F:%d R:%d", tiltAngle, ..)
FormatStatus(angle) == <<"T:%.1f", RoundDiv(angle, 100)>>

\* snprintf(msg, .., "%.3f,%.3f,%.3f,%.3f,%.3f,%.3f,%.3f", ax, .., tiltAngle)
FormatImuData(angle) == <<"%.3f", angle>>

-----------------------------------------------------------------------------
(* The M4 balance loop: one step per handler.  Eff is the part of the state *)
(* a handler can change; a handler maps an Eff to an Eff.  The values a     *)
(* handler keeps in locals (the popped event, the result of a push) are     *)
(* fields of Eff that no variable keeps.                                    *)

Motors == {"left", "right"}

MAX_OBSERVERS == 4

Eff ==
    [queue |-> queue, pending |-> pending, nAccepted |-> nAccepted,
     nPopped |-> nPopped, dropped |-> 0, ok |-> TRUE, item |-> FreeItem,
     calls |-> <<>>, cmds |-> <<>>, estop |-> emergencyStopActive,
     blinks |-> ledRedBlinks]

\* EventQueue::push called with the semaphore free: taken, body, released
PushNow(e, q, type, text) ==
    LET res == QPush(e.queue[q], type, text)
    IN  [e EXCEPT !.queue[q] = res.ring,
                  !.pending[q] = IF res.ok
                                 THEN Append(@, [type |-> type, text |-> text])
                                 ELSE @,
                  !.nAccepted[q] = IF res.ok THEN @ + 1 ELSE @,
                  !.dropped = IF res.ok THEN @ ELSE @ + 1,
                  !.ok = res.ok]

\* EventQueue::pop called on core c with the semaphore free
PopNow(e, c) ==
    LET q == OwnQueue(c)
        res == QPop(e.queue[q])
    IN  IF res.ok
        THEN [e EXCEPT !.queue[q] = res.ring,
                       !.pending[q] = Tail(@),
                       !.nPopped[q] = @ + 1,
                       !.item = res.item,
                       !.ok = TRUE]
        ELSE [e EXCEPT !.ok = FALSE]

\* EventBroadcaster::sendToM7 with the semaphore free
SendToM7Now(e, type, text) == PushNow(e, "m7", type, text)

\* EventBroadcaster::broadcastEvent with the semaphores free: m4EventQueue, then
\* m7EventQueue
BroadcastNow(e, type, text) ==
    LET e1 == PushNow(e, "m4", type, text)
        e2 == PushNow(e1, "m7", type, text)
    IN  [e2 EXCEPT !.ok = e1.ok /\ e2.ok]

\* ODriveS1Interface::stop(): setVelocity(0.0), one Set Input Vel frame
MotorStop(cmdSeq, m) == Append(cmdSeq, [motor |-> m, vel |-> 0])

\* DriveCoordinator::stop(): the left motor, then the right motor (the coordinator
\* is built with both); no readiness flag is read on the way
DriveStop(cmdSeq) == MotorStop(MotorStop(cmdSeq, "left"), "right")

Call(o, kind, angle, acted) ==
    [obs |-> o, kind |-> kind, angle |-> angle, acted |-> acted]

\* a variant of onTiltChange that does not look at the emergency latch
MotorTiltChangeUnguarded(e, angle) ==
    [e EXCEPT !.calls = Append(@, Call("motorController", "tiltChange", angle, TRUE))]

\* BalanceMotorController::onTiltChange: returns at once while the latch is set;
\* otherwise reaches the control section (acted), which issues no command yet
MotorOnTiltChange(e, angle) ==
    [e EXCEPT !.calls = Append(@, Call("motorController", "tiltChange", angle,
                                       ~ e.estop))]

\* a variant of onBalanceEmergency that does nothing when the latch is already set
MotorEmergencyOnce(e, angle) ==
    IF e.estop
    THEN [e EXCEPT !.calls = Append(@, Call("motorController", "emergency", angle,
                                            FALSE))]
    ELSE [e EXCEPT !.cmds = DriveStop(@), !.estop = TRUE,
                   !.calls = Append(@, Call("motorController", "emergency", angle,
                                            TRUE))]

\* BalanceMotorController::onBalanceEmergency: motors->stop(), then the latch
MotorOnBalanceEmergency(e, angle) ==
    [e EXCEPT !.cmds = DriveStop(@), !.estop = TRUE,
              !.calls = Append(@, Call("motorController", "emergency", angle, TRUE))]

\* BalanceEventObserver::onTiltChange: sendToM7, the result is not looked at
EventOnTiltChange(e, angle) ==
    LET e1 == SendToM7Now(e, "BALANCE_IMU_DATA", FormatAngle(angle))
    IN  [e1 EXCEPT !.calls = Append(@, Call("eventObserver", "tiltChange", angle,
                                            TRUE))]

\* BalanceEventObserver::onBalanceEmergency: broadcastEvent, the result is not looked at
EventOnBalanceEmergency(e, angle) ==
    LET e1 == BroadcastNow(e, "EMERGENCY_STOP", FormatAngle(angle))
    IN  [e1 EXCEPT !.calls = Append(@, Call("eventObserver", "emergency", angle,
                                            TRUE))]

\* observers[i]->onTiltChange(angle)
onTiltChange(o, e, angle) ==
    IF o = "motorController" THEN MotorOnTiltChange(e, angle)
                             ELSE EventOnTiltChange(e, angle)

\* observers[i]->onBalanceEmergency(angle)
onBalanceEmergency(o, e, angle) ==
    IF o = "motorController" THEN MotorOnBalanceEmergency(e, angle)
                             ELSE EventOnBalanceEmergency(e, angle)

\* a variant of the dispatch loop that runs from the last registered observer down
RECURSIVE NotifyLastFirst(_, _, _, _)
NotifyLastFirst(obs, kind, e, angle) ==
    IF obs = <<>>
    THEN e
    ELSE LET o == obs[Len(obs)]
         IN  NotifyLastFirst(SubSeq(obs, 1, Len(obs) - 1), kind,
                             IF kind = "tiltChange" THEN onTiltChange(o, e, angle)
                                                    ELSE onBalanceEmergency(o, e, angle),
                             angle)

\* for (i = 0; i < observerCount; i++) observers[i]->...(angle)
RECURSIVE Notify(_, _, _, _)
Notify(obs, kind, e, angle) ==
    IF obs = <<>>
    THEN e
    ELSE Notify(Tail(obs), kind,
                IF kind = "tiltChange" THEN onTiltChange(Head(obs), e, angle)
                                       ELSE onBalanceEmergency(Head(obs), e, angle),
                angle)

\* a variant of the emergency dispatch that fires only when the limit is crossed
NotifyEmergencyOnCrossing(e, oldTilt, newTilt) ==
    IF IsEmergency(newTilt) /\ ~ IsEmergency(oldTilt)
    THEN Notify(observers, "emergency", e, newTilt)
    ELSE e

\* update(): the emergency check, made on the angle just stored
NotifyEmergency(e, oldTilt, newTilt) ==
    IF IsEmergency(newTilt) THEN Notify(observers, "emergency", e, newTilt) ELSE e

\* update(): the tilt-change check, made against the angle the last update stored
NotifyTiltChange(e, oldTilt, newTilt) ==
    IF TiltChanged(newTilt, oldTilt) THEN Notify(observers, "tiltChange", e, newTilt)
                                     ELSE e

\* what a handler leaves in the queues and indicators; dropped counts the pushes the
\* handler had refused
Commit(e) ==
    /\ queue' = e.queue
    /\ pending' = e.pending
    /\ nAccepted' = e.nAccepted
    /\ nPopped' = e.nPopped
    /\ dropped' = e.dropped
    /\ ledRedBlinks' = e.blinks

\* a handler that touches neither queue
Quiet ==
    /\ dropped' = 0
    /\ UNCHANGED <<chanVars, ledRedBlinks>>

\* what the last update() call did
updVars == <<currentTiltAngle, reading, lastUpdateTime, prevTilt, calls, cmds,
             wasStopped, nUpdates, lastReadOK>>

\* a variant of addObserver that puts the observer in the last entry when the table
\* is full
AddObserverReplacing(table, observer) ==
    IF observer = "null"
    THEN [ok |-> FALSE, table |-> table]
    ELSE IF Len(table) >= MAX_OBSERVERS
         THEN [ok |-> TRUE, table |-> [table EXCEPT ![MAX_OBSERVERS] = observer]]
         ELSE [ok |-> TRUE, table |-> Append(table, observer)]

\* BalanceIMU::addObserver on the table observers[0 .. observerCount-1]: the return
\* value and the table it leaves
AddObserverResult(table, observer) ==
    IF observer = "null" \/ Len(table) >= MAX_OBSERVERS
    THEN [ok |-> FALSE, table |-> table]
    ELSE [ok |-> TRUE, table |-> Append(table, observer)]

\* balanceIMU.addObserver(observer) in setup(): each observer is registered once
addObserver(o) ==
    /\ ~ running
    /\ \A i \in 1 .. Len(observers) : observers[i] # o
    /\ AddObserverResult(observers, o).ok
    /\ observers' = AddObserverResult(observers, o).table
    /\ Quiet
    /\ UNCHANGED <<running, emergencyStopActive, nReports, updVars>>

\* the end of setup() on M4: the "M4 hardware validation mode" event, then loop()
StartLoop ==
    /\ ~ running
    /\ running' = TRUE
    /\ Commit(SendToM7Now(Eff, "SYSTEM_HEALTH", <<"M4 hardware validation mode">>))
    /\ UNCHANGED <<holder, pc, sent, lastResult, out, observers, emergencyStopActive, nReports, updVars>>

\* a variant of the failed read that still takes the time of the call as the time of
\* the last update
UpdateReadFailsStamping ==
    /\ running
    /\ nUpdates < MaxUpdates
    /\ nUpdates' = nUpdates + 1
    /\ lastReadOK' = FALSE
    /\ calls' = <<>>
    /\ cmds' = <<>>
    /\ wasStopped' = emergencyStopActive
    /\ lastUpdateTime' = lastUpdateTime + 10
    /\ Quiet
    /\ UNCHANGED <<running, observers, currentTiltAngle, reading, prevTilt,
                   emergencyStopActive, nReports>>

\* BalanceIMU::update() when imu->readSensors(..) returns false:
\* ICM20948Interface::readSensors returns before it writes any of its outputs, and
\* update() returns before it reads the clock
UpdateReadFails ==
    /\ running
    /\ nUpdates < MaxUpdates
    /\ nUpdates' = nUpdates + 1
    /\ lastReadOK' = FALSE
    /\ calls' = <<>>
    /\ cmds' = <<>>
    /\ wasStopped' = emergencyStopActive
    /\ Quiet
    /\ UNCHANGED <<running, observers, currentTiltAngle, reading, lastUpdateTime,
                   prevTilt, emergencyStopActive, nReports>>

\* BalanceIMU::update() from the clock read on, deltaMs after the last update that got
\* a reading
UpdateFrom(sample, gyroRate, deltaMs) ==
    LET currentTime == MillisAfter(lastUpdateTime, deltaMs)
        deltaTime == DeltaTime(currentTime, lastUpdateTime)
        accelTilt == calculateTiltFromAccel(sample)
        newTiltAngle == applyComplementaryFilter(currentTiltAngle, accelTilt,
                                                 gyroRate, deltaTime)
        e1 == NotifyTiltChange(Eff, currentTiltAngle, newTiltAngle)
        e2 == NotifyEmergency(e1, currentTiltAngle, newTiltAngle)
    IN  /\ running
        /\ lastReadOK' = TRUE
        /\ currentTiltAngle' = newTiltAngle
        /\ reading' = [accel |-> sample, gyro |-> gyroRate]
        /\ lastUpdateTime' = currentTime
        /\ prevTilt' = currentTiltAngle
        /\ calls' = e2.calls
        /\ cmds' = e2.cmds
        /\ wasStopped' = emergencyStopActive
        /\ emergencyStopActive' = e2.estop
        /\ Commit(e2)
        /\ UNCHANGED <<holder, pc, sent, lastResult, out, running, observers, nReports>>

\* BalanceIMU::update() when the read succeeds
Update(sample, gyroRate, deltaMs) ==
    /\ nUpdates < MaxUpdates
    /\ nUpdates' = nUpdates + 1
    /\ UpdateFrom(sample, gyroRate, deltaMs)

\* BalanceMotorController::resetEmergencyStop(), the explicit external reset
resetEmergencyStop ==
    /\ running
    /\ emergencyStopActive' = FALSE
    /\ Quiet
    /\ UNCHANGED <<running, observers, nReports, updVars>>

\* a report handler on M4; e is what it leaves
Report(e) ==
    /\ running
    /\ nReports < MaxReports
    /\ nReports' = nReports + 1
    /\ Commit(e)
    /\ UNCHANGED <<holder, pc, sent, lastResult, out, running, observers,
                   emergencyStopActive, updVars>>

\* sendStatusReport(): the condensed status to M7, the result is not looked at
sendStatusReport ==
    Report(SendToM7Now(Eff, "SYSTEM_HEALTH", FormatStatus(currentTiltAngle)))

\* ObstacleEventObserver::onObstacleDetection: sendToM7, the result is not looked at
onObstacleDetection(sensorId, distance) ==
    Report(SendToM7Now(Eff, "PROXIMITY_WARNING", <<sensorId, "%.0f", distance>>))

\* loop() of the queue test: the periodic IMU data event; a red blink if it is refused
SendImuData ==
    LET e1 == SendToM7Now(Eff, "BALANCE_IMU_DATA", FormatImuData(currentTiltAngle))
    IN  Report(IF e1.ok THEN e1 ELSE [e1 EXCEPT !.blinks = @ + 1])

\* processM4Event answering the kinds it has no case for as well
ProcessM4EventReplyAll(e, type) ==
    IF type = "EMERGENCY_STOP"
    THEN SendToM7Now(e, "SAFETY_ALERT", <<"Emergency stop acknowledged">>)
    ELSE IF type = "SYSTEM_STARTUP"
         THEN SendToM7Now(e, "SYSTEM_HEALTH", <<"M4 ready">>)
         ELSE SendToM7Now(e, "SYSTEM_HEALTH", <<"Unhandled event">>)

\* processM4Event(eventType, eventData): the follow-on event, if any; its result is
\* not looked at
ProcessM4EventReply(e, type) ==
    IF type = "EMERGENCY_STOP"
    THEN SendToM7Now(e, "SAFETY_ALERT", <<"Emergency stop acknowledged">>)
    ELSE IF type = "SYSTEM_STARTUP"
         THEN SendToM7Now(e, "SYSTEM_HEALTH", <<"M4 ready">>)
         ELSE e

\* loop(): while (m4EventQueue.pop(..)) processM4Event(..)
RECURSIVE DrainM4(_)
DrainM4(e) ==
    LET e1 == PopNow(e, "M4")
    IN  IF e1.ok THEN DrainM4(ProcessM4EventReply(e1, e1.item.type)) ELSE e1

\* loop() on M4: the event processing part, with m4EventQueue not empty
ProcessM4Events ==
    /\ running
    /\ ~ QEmpty(queue["m4"])
    /\ Commit(DrainM4(Eff))
    /\ UNCHANGED <<holder, pc, sent, lastResult, out, running, observers,
                   emergencyStopActive, nReports, updVars>>

\* setup() on M7: broadcastEvent(EVENT_SYSTEM_STARTUP, "M7 ready"), then loop()
M7Startup ==
    /\ pc["M7"].op = "setup"
    /\ pc' = [pc EXCEPT !["M7"] = Idle]
    /\ Commit(BroadcastNow(Eff, "SYSTEM_STARTUP", <<"M7 ready">>))
    /\ UNCHANGED <<holder, sent, lastResult, out, running, observers,
                   emergencyStopActive, nReports, updVars>>

\* loop() on M7: while (m7EventQueue.pop(..)) processStatusEvent(..)
RECURSIVE DrainM7(_)
DrainM7(e) ==
    LET e1 == PopNow(e, "M7")
    IN  IF e1.ok THEN DrainM7(e1) ELSE e1

\* loop() on M7: the event processing part, with m7EventQueue not empty
ProcessM7Events ==
    /\ pc["M7"].op = "idle"
    /\ ~ QEmpty(queue["m7"])
    /\ Commit(DrainM7(Eff))
    /\ UNCHANGED <<holder, pc, sent, lastResult, out, running, observers,
                   emergencyStopActive, nReports, updVars>>

BalanceNext ==
    \/ \E o \in {"motorController", "eventObserver"} :
          addObserver(o) /\ UNCHANGED otherVars
    \/ StartLoop /\ UNCHANGED otherVars
    \/ UpdateReadFails /\ UNCHANGED otherVars
    \/ \E in \in UpdateInputs :
          Update(in.r.accel, in.r.gyro, in.dt) /\ UNCHANGED otherVars
    \/ resetEmergencyStop /\ UNCHANGED otherVars
    \/ ProcessM4Events /\ UNCHANGED otherVars
    \/ M7Startup /\ UNCHANGED otherVars
    \/ ProcessM7Events /\ UNCHANGED otherVars

SpecBalance == Init /\ [][BalanceNext]_vars

\* the producers of M4 against the consumer on M7, without the balance loop
ReportsNext ==
    \/ StartLoop /\ UNCHANGED otherVars
    \/ sendStatusReport /\ UNCHANGED otherVars
    \/ \E sensorId \in {"front", "rear"} :
          onObstacleDetection(sensorId, 150) /\ UNCHANGED otherVars
    \/ SendImuData /\ UNCHANGED otherVars
    \/ ProcessM4Events /\ UNCHANGED otherVars
    \/ M7Startup /\ UNCHANGED otherVars
    \/ ProcessM7Events /\ UNCHANGED otherVars

SpecReports == Init /\ [][ReportsNext]_vars

-----------------------------------------------------------------------------
(* The observer table on its own: any caller, any argument *)

\* what a caller can pass to addObserver: a null pointer or one of the two
\* BalanceObserver implementations (nothing stops a second registration of one)
ObserverArgs == {"null", "motorController", "eventObserver"}

\* one call of BalanceIMU::addObserver(observer) before loop() starts
AddObserverCall(observer) ==
    LET res == AddObserverResult(observers, observer)
    IN  /\ ~ running
        /\ nAdds < MaxAdds
        /\ nAdds' = nAdds + 1
        /\ lastAdd' = [arg |-> observer, ok |-> res.ok]
        /\ observers' = res.table
        /\ Quiet
        /\ UNCHANGED <<running, emergencyStopActive, nReports, updVars, tofVars, imuVars,
                       m7Vars, dispVars, extVars>>

RegistryNext == \E observer \in ObserverArgs : AddObserverCall(observer)

SpecRegistry == Init /\ [][RegistryNext]_vars

-----------------------------------------------------------------------------
(* Start-up of the queue test: M4 waits in setup() for the start-up event of M7 *)

\* setup() on M4 after the wait: each ToF sensor that fails to initialize is reported,
\* then the "M4 Initialized" event
SetupReports(e, rearOK, frontOK) ==
    LET e1 == IF rearOK THEN e
                        ELSE SendToM7Now(e, "SYSTEM_STARTUP", <<"Rear ToF init failed">>)
        e2 == IF frontOK THEN e1
                         ELSE SendToM7Now(e1, "SYSTEM_STARTUP", <<"Front ToF init failed">>)
    IN  SendToM7Now(e2, "SYSTEM_STARTUP", <<"M4 Initialized">>)

\* setup() on M4: one turn of
\*   while (!m4EventQueue.pop(startType, nullptr) || startType != EVENT_SYSTEM_STARTUP);
\* and, when the turn ends the wait, the rest of setup()
AwaitStartup(rearOK, frontOK) ==
    LET e1 == PopNow(Eff, "M4")
    IN  /\ ~ running
        /\ IF e1.ok /\ e1.item.type = "SYSTEM_STARTUP"
           THEN /\ running' = TRUE
                /\ Commit(SetupReports(e1, rearOK, frontOK))
           ELSE /\ running' = running
                /\ Commit(e1)
        /\ UNCHANGED <<holder, pc, sent, lastResult, out, observers,
                       emergencyStopActive, nReports, updVars>>

\* setup() on M4 of the queue test, whatever the ToF sensors do
M4Setup ==
    /\ \E rearOK, frontOK \in BOOLEAN : AwaitStartup(rearOK, frontOK)
    /\ UNCHANGED otherVars

BootNext ==
    \/ M7Startup /\ UNCHANGED otherVars
    \/ M4Setup
    \/ SendImuData /\ UNCHANGED otherVars
    \/ ProcessM7Events /\ UNCHANGED otherVars

\* M4 is scheduled: its setup() keeps running whatever M7 does.  Nothing is assumed
\* about M7.
BootFairness == WF_vars(M4Setup)

SpecBoot == Init /\ [][BootNext]_vars /\ BootFairness

-----------------------------------------------------------------------------
(* The ToF bring-up in setup() of the queue test, and the polling in loop() *)

\* VL53L4CXInterface(&Wire, xshutPin, address): rear 0x30, front 0x29
ConfiguredAddress == [rear |-> 48, front |-> DEFAULT_ADDRESS]

\* ObstacleEventObserver(sensorId, 20.0f)
ObstacleThreshold == 20

\* ToFSensor::_observer: nullptr, or an observer whose getThreshold() returns mm
NoObserver == [set |-> FALSE, threshold |-> 0]
ObserverWith(mm) == [set |-> TRUE, threshold |-> mm]

\* readDistance() returned false: the caller's distance was not written
NoData == -1

\* Config::NO_TARGET_DISTANCE, the start value of closest in readDistance().  Config
\* belongs to InstinctusKit; the value is a range in millimetres that RangeMilliMeter
\* (int16_t) can hold
NO_TARGET_DISTANCE == 9999

\* the values of RangeStatus that readDistance() accepts
ValidStatuses == {"RANGE_VALID", "RANGE_VALID_MIN_RANGE_CLIPPED"}

\* RangeData[i]: RangeStatus and RangeMilliMeter of one return
Return(status, mm) == [RangeStatus |-> status, RangeMilliMeter |-> mm]

\* the returns a measurement is made of: a valid one below the threshold, a clipped one
\* at the threshold, a valid one at NO_TARGET_DISTANCE, and a failed one that is
\* closer than all of them
RangeData ==
    {Return("RANGE_VALID", 15),
     Return("RANGE_VALID_MIN_RANGE_CLIPPED", ObstacleThreshold),
     Return("RANGE_VALID", NO_TARGET_DISTANCE),
     Return("SIGNAL_FAIL", 10)}

\* VL53L4CX_MultiRangingData_t: NumberOfObjectsFound returns
MultiRangingData == UNION {[1..n -> RangeData] : n \in 0..MaxReturns}

\* what the sensor answers to one readDistance(): the data-ready read fails, the flag
\* is clear, the flag is set and the data read fails, or the flag is set and the
\* returns arrive
FlagError == [flag |-> "error", data |-> "none", returns |-> <<>>]
FlagClear == [flag |-> "clear", data |-> "none", returns |-> <<>>]
DataError == [flag |-> "ready", data |-> "error", returns |-> <<>>]
Ready(returns) == [flag |-> "ready", data |-> "ok", returns |-> returns]
Measurements ==
    {FlagError, FlagClear, DataError} \cup {Ready(r) : r \in MultiRangingData}

\* the loop without the status test: every return counts
RECURSIVE ClosestAnyStatus(_, _, _)
ClosestAnyStatus(returns, i, acc) ==
    IF i > Len(returns)
    THEN acc
    ELSE LET d == returns[i].RangeMilliMeter
         IN  IF d < acc.closest
             THEN ClosestAnyStatus(returns, i + 1, [closest |-> d, found |-> TRUE])
             ELSE ClosestAnyStatus(returns, i + 1, acc)

\* the loop of readDistance() from return i on: a return replaces closest when its
\* status is valid and its range is below closest
RECURSIVE ClosestFrom(_, _, _)
ClosestFrom(returns, i, acc) ==
    IF i > Len(returns)
    THEN acc
    ELSE LET d == returns[i].RangeMilliMeter
         IN  IF returns[i].RangeStatus \in ValidStatuses /\ d < acc.closest
             THEN ClosestFrom(returns, i + 1, [closest |-> d, found |-> TRUE])
             ELSE ClosestFrom(returns, i + 1, acc)

\* a variant of readDistance that returns on a failed data read without clearing the
\* interrupt
readDistanceLeavingError(m) ==
    IF m.flag # "ready" \/ m.data # "ok"
    THEN [ok |-> FALSE, distance |-> NoData, restarted |-> FALSE, restarts |-> 0]
    ELSE LET c == ClosestFrom(m.returns, 1,
                              [closest |-> NO_TARGET_DISTANCE, found |-> FALSE])
         IN  [ok |-> c.found,
              distance |-> IF c.found THEN c.closest ELSE NoData,
              restarted |-> TRUE, restarts |-> 1]

\* VL53L4CXInterface::readDistance(distance): the return value, the distance written
\* (NoData when it is not), whether the next measurement was started, and the number
\* of VL53L4CX_ClearInterruptAndStartMeasurement calls made
readDistance(m) ==
    IF m.flag # "ready"
    THEN [ok |-> FALSE, distance |-> NoData, restarted |-> FALSE, restarts |-> 0]
    ELSE IF m.data # "ok"
    THEN [ok |-> FALSE, distance |-> NoData, restarted |-> TRUE, restarts |-> 1]
    ELSE LET c == ClosestFrom(m.returns, 1,
                              [closest |-> NO_TARGET_DISTANCE, found |-> FALSE])
         IN  [ok |-> c.found,
              distance |-> IF c.found THEN c.closest ELSE NoData,
              restarted |-> TRUE, restarts |-> 1]

\* the sensors out of reset that answer a command addressed to a
Answering(a) == {s \in Sensors : xshut[s] = "high" /\ devAddr[s] = a}

\* the bring-up order: rear first, then front, then the end of setup()
AfterInit(s) == IF s = "rear" THEN <<"front", "release">> ELSE <<"end">>

\* what the ToF steps leave alone
ToFFrame ==
    UNCHANGED <<holder, pc, sent, lastResult, out, balVarsButQueue, regVars, imuVars,
                m7Vars, dispVars, extVars>>

\* setup(): both XSHUT pins to output and low; a sensor in reset forgets its address
ShutDownBoth ==
    /\ tofPc = <<"start">>
    /\ xshut' = [s \in Sensors |-> "low"]
    /\ devAddr' = [s \in Sensors |-> DEFAULT_ADDRESS]
    /\ tofPc' = <<"rear", "release">>
    /\ Commit(Eff)
    /\ UNCHANGED <<tofInitialized, currentDistance, busCmd, nPolls, lastPoll, tofObserver>>
    /\ ToFFrame

\* setup(): xToF.setObserver(&xObstacleObserver), then VL53L4CXInterface::initialize():
\* _tof.begin() and the start of InitSensor, which takes the sensor's XSHUT low and
\* then high; the sensor boots at the default address
ReleaseSensor(s) ==
    /\ tofPc = <<s, "release">>
    /\ xshut' = [xshut EXCEPT ![s] = "high"]
    /\ devAddr' = [devAddr EXCEPT ![s] = DEFAULT_ADDRESS]
    /\ tofPc' = <<s, "address">>
    /\ tofObserver' = [tofObserver EXCEPT ![s] = ObserverWith(ObstacleThreshold)]
    /\ Commit(Eff)
    /\ UNCHANGED <<tofInitialized, currentDistance, busCmd, nPolls, lastPoll>>
    /\ ToFFrame

\* setup(): if (!xToF.initialize()) sendToM7(EVENT_SYSTEM_STARTUP, "<X> ToF init failed")
InitFailed(s) ==
    Commit(SendToM7Now(Eff, "SYSTEM_STARTUP", <<s, "ToF init failed">>))

\* InitSensor(_i2cAddress): the address write, sent to the default address.  When
\* it is acknowledged every sensor that answered takes the new address; when it
\* fails initialize() returns false and setup() goes on to the next sensor with
\* this one left out of reset
SetDeviceAddress(s, ok) ==
    /\ tofPc = <<s, "address">>
    /\ busCmd' = [addr |-> DEFAULT_ADDRESS, answering |-> Answering(DEFAULT_ADDRESS)]
    /\ IF ok
       THEN /\ devAddr' = [t \in Sensors |->
                              IF t \in Answering(DEFAULT_ADDRESS)
                              THEN ConfiguredAddress[s] ELSE devAddr[t]]
            /\ tofPc' = <<s, "finish">>
            /\ Commit(Eff)
       ELSE /\ devAddr' = devAddr
            /\ tofPc' = AfterInit(s)
            /\ InitFailed(s)
    /\ UNCHANGED <<xshut, tofInitialized, currentDistance, nPolls, lastPoll, tofObserver>>
    /\ ToFFrame

\* the rest of initialize(): boot wait and data init, distance mode, timing budget,
\* then startRanging(), all addressed to the configured address
FinishInit(s, ok) ==
    /\ tofPc = <<s, "finish">>
    /\ busCmd' = [addr |-> ConfiguredAddress[s],
                  answering |-> Answering(ConfiguredAddress[s])]
    /\ tofInitialized' = [tofInitialized EXCEPT ![s] = ok]
    /\ tofPc' = AfterInit(s)
    /\ IF ok THEN Commit(Eff) ELSE InitFailed(s)
    /\ UNCHANGED <<xshut, devAddr, currentDistance, nPolls, lastPoll, tofObserver>>
    /\ ToFFrame

\* the end of setup(): the "M4 Initialized" event, then loop()
SetupEnd ==
    /\ tofPc = <<"end">>
    /\ tofPc' = <<"loop">>
    /\ running' = TRUE
    /\ Commit(SendToM7Now(Eff, "SYSTEM_STARTUP", <<"M4 Initialized">>))
    /\ UNCHANGED <<xshut, devAddr, tofInitialized, currentDistance, busCmd, nPolls,
                   lastPoll, tofObserver>>
    /\ UNCHANGED <<holder, pc, sent, lastResult, out, observers, emergencyStopActive,
                   nReports, updVars, regVars, imuVars, m7Vars, dispVars, extVars>>

\* update() comparing with one threshold for all sensors, observer or not
ToFUpdateOneThreshold(s, m) ==
    LET r == readDistance(m)
    IN  /\ tofPc = <<"loop">>
        /\ nPolls < MaxPolls
        /\ nPolls' = nPolls + 1
        /\ lastPoll' = [sensor |-> s, m |-> m]
        /\ IF ~ tofInitialized[s]
           THEN /\ Commit(Eff)
                /\ UNCHANGED <<busCmd, currentDistance>>
           ELSE /\ busCmd' = [addr |-> ConfiguredAddress[s],
                              answering |-> Answering(ConfiguredAddress[s])]
                /\ IF ~ r.ok
                   THEN /\ Commit(Eff)
                        /\ UNCHANGED currentDistance
                   ELSE /\ currentDistance' = [currentDistance EXCEPT ![s] = r.distance]
                        /\ IF r.distance < ObstacleThreshold
                           THEN Commit(SendToM7Now(Eff, "PROXIMITY_WARNING",
                                                   <<s, "%.0f", r.distance>>))
                           ELSE Commit(Eff)
        /\ UNCHANGED <<tofPc, xshut, devAddr, tofInitialized, tofObserver>>
        /\ ToFFrame

\* update() storing its local distance also when readDistance() returns false
ToFUpdateResetting(s, m) ==
    LET r == readDistance(m)
    IN  /\ tofPc = <<"loop">>
        /\ nPolls < MaxPolls
        /\ nPolls' = nPolls + 1
        /\ lastPoll' = [sensor |-> s, m |-> m]
        /\ IF ~ tofInitialized[s]
           THEN /\ Commit(Eff)
                /\ UNCHANGED <<busCmd, currentDistance>>
           ELSE /\ busCmd' = [addr |-> ConfiguredAddress[s],
                              answering |-> Answering(ConfiguredAddress[s])]
                /\ currentDistance' = [currentDistance EXCEPT ![s] = r.distance]
                /\ IF r.ok /\ tofObserver[s].set
                                /\ r.distance < tofObserver[s].threshold
                   THEN Commit(SendToM7Now(Eff, "PROXIMITY_WARNING",
                                           <<s, "%.0f", r.distance>>))
                   ELSE Commit(Eff)
        /\ UNCHANGED <<tofPc, xshut, devAddr, tofInitialized, tofObserver>>
        /\ ToFFrame

\* update() calling the observer again with the stored distance when readDistance()
\* returns false
ToFUpdateRepeating(s, m) ==
    LET r == readDistance(m)
        d == IF r.ok THEN r.distance ELSE currentDistance[s]
    IN  /\ tofPc = <<"loop">>
        /\ nPolls < MaxPolls
        /\ nPolls' = nPolls + 1
        /\ lastPoll' = [sensor |-> s, m |-> m]
        /\ IF ~ tofInitialized[s]
           THEN /\ Commit(Eff)
                /\ UNCHANGED <<busCmd, currentDistance>>
           ELSE /\ busCmd' = [addr |-> ConfiguredAddress[s],
                              answering |-> Answering(ConfiguredAddress[s])]
                /\ currentDistance' = [currentDistance EXCEPT ![s] = d]
                /\ IF d # -1 /\ tofObserver[s].set /\ d < tofObserver[s].threshold
                   THEN Commit(SendToM7Now(Eff, "PROXIMITY_WARNING", <<s, "%.0f", d>>))
                   ELSE Commit(Eff)
        /\ UNCHANGED <<tofPc, xshut, devAddr, tofInitialized, tofObserver>>
        /\ ToFFrame

\* ToFSensor::update() in loop(): nothing when the sensor is not initialized or
\* readDistance() returns false; else the distance is stored and, below the threshold,
\* the observer called
ToFUpdate(s, m) ==
    LET r == readDistance(m)
    IN  /\ tofPc = <<"loop">>
        /\ nPolls < MaxPolls
        /\ nPolls' = nPolls + 1
        /\ lastPoll' = [sensor |-> s, m |-> m]
        /\ IF ~ tofInitialized[s]
           THEN /\ Commit(Eff)
                /\ UNCHANGED <<busCmd, currentDistance>>
           ELSE /\ busCmd' = [addr |-> ConfiguredAddress[s],
                              answering |-> Answering(ConfiguredAddress[s])]
                /\ IF ~ r.ok
                   THEN /\ Commit(Eff)
                        /\ UNCHANGED currentDistance
                   ELSE /\ currentDistance' = [currentDistance EXCEPT ![s] = r.distance]
                        /\ IF /\ tofObserver[s].set
                              /\ r.distance < tofObserver[s].threshold
                           THEN Commit(SendToM7Now(Eff, "PROXIMITY_WARNING",
                                                   <<s, "%.0f", r.distance>>))
                           ELSE Commit(Eff)
        /\ UNCHANGED <<tofPc, xshut, devAddr, tofInitialized, tofObserver>>
        /\ ToFFrame

ToFNext ==
    \/ ShutDownBoth
    \/ \E s \in Sensors : ReleaseSensor(s)
    \/ \E s \in Sensors, ok \in BOOLEAN : SetDeviceAddress(s, ok)
    \/ \E s \in Sensors, ok \in BOOLEAN : FinishInit(s, ok)
    \/ SetupEnd
    \/ \E s \in Sensors, m \in Measurements : ToFUpdate(s, m)

SpecToF == Init /\ [][ToFNext]_vars

-----------------------------------------------------------------------------
(* The queue test from the IMU bring-up on: setup() with subsystems that may     *)
(* fail to initialize, then the updates of loop()                                *)

\* BalanceIMU::initialize() at time now, imu->initialize() returning ok
initialize(ok, now) ==
    /\ imuInit = "none"
    /\ imuInit' = IF ok THEN "ok" ELSE "failed"
    /\ lastUpdateTime' = IF ok THEN now ELSE lastUpdateTime

\* millis() when setup() reaches the IMU
BootTime == 100

\* setup(): balanceIMU.setObserver(&balanceEventObserver); balanceIMU.initialize();
\* the result of initialize() is not looked at
ImuInitialize(ok) ==
    /\ tofPc = <<"start">>
    /\ initialize(ok, BootTime)
    /\ observers' = AddObserverResult(observers, "eventObserver").table
    /\ Quiet
    /\ UNCHANGED <<running, emergencyStopActive, nReports, currentTiltAngle, reading,
                   prevTilt, calls, cmds, wasStopped, nUpdates, lastReadOK, regVars,
                   tofVars, m7Vars, dispVars, extVars>>

\* setup() goes on to the ToF sensors
StartupShutDown == imuInit # "none" /\ ShutDownBoth

\* the reading of a robot at rest and level, 10 ms after the last one
LevelInput == [r |-> [accel |-> [x |-> 0, z |-> 9800, atan2 |-> 0], gyro |-> 0],
               dt |-> 10]

\* what a sensor answers in loop(): nothing new, or one valid return
PollAnswers == {FlagClear, Ready(<<Return("RANGE_VALID", 15)>>)}

StartupNext ==
    \/ \E ok \in BOOLEAN : ImuInitialize(ok)
    \/ StartupShutDown
    \/ \E s \in Sensors : ReleaseSensor(s)
    \/ \E s \in Sensors, ok \in BOOLEAN : SetDeviceAddress(s, ok)
    \/ \E s \in Sensors, ok \in BOOLEAN : FinishInit(s, ok)
    \/ SetupEnd
    \/ UpdateReadFails /\ UNCHANGED otherVars
    \/ Update(LevelInput.r.accel, LevelInput.r.gyro, LevelInput.dt) /\ UNCHANGED otherVars
    \/ \E s \in Sensors, m \in PollAnswers : ToFUpdate(s, m)

SpecStartup == Init /\ [][StartupNext]_vars

-----------------------------------------------------------------------------
(* BalanceIMU against the millisecond clock: initialize() at some time, then     *)
(* updates after some time                                                       *)

\* millis() at initialize(): shortly after boot, or five milliseconds before the
\* counter wraps
InitTimes == {BootTime, -5}

\* setup() of the balancer: balanceIMU.initialize() succeeds at time now
ClockInitialize(now) ==
    /\ ~ running
    /\ initialize(TRUE, now)
    /\ Quiet
    /\ UNCHANGED <<running, observers, emergencyStopActive, nReports, currentTiltAngle,
                   reading, prevTilt, calls, cmds, wasStopped, nUpdates, lastReadOK,
                   regVars, tofVars, m7Vars, dispVars, extVars>>

\* milliseconds from one update() to the next: the same millisecond, the loop delay,
\* a stalled loop
ClockDeltas == {0, 10, 1000}

\* the readings of a level robot, at rest or turning
ClockInputs ==
    {in \in [r : Readings, dt : ClockDeltas] : in.r.accel.atan2 = 0 /\ in.r.gyro >= 0}

ClockNext ==
    \/ \E now \in InitTimes : ClockInitialize(now)
    \/ StartLoop /\ UNCHANGED otherVars
    \/ UpdateReadFails /\ UNCHANGED otherVars
    \/ \E in \in ClockInputs :
          Update(in.r.accel, in.r.gyro, in.dt) /\ UNCHANGED otherVars

SpecClock == Init /\ [][ClockNext]_vars

-----------------------------------------------------------------------------
(* loop() of the M7 balancer sketch against the millisecond clock: the events of *)
(* M4 and the "No M4 events" warning                                            *)

\* milliseconds from one loop() iteration to the next: the delay(10), or an iteration
\* held up for five seconds
LoopDeltas == {10, 5000}

\* the silence after which the warning is due, and the seconds between warnings
EVENT_TIMEOUT == 5000
WARNING_SECONDS == 10

\* loop() on M7, dt milliseconds after the last iteration: every event popped counts
\* and stamps lastEventTime with the time read at the top of the iteration; then the
\* timeout test
M7Loop(dt) ==
    LET currentMillis == MillisAfter(m7Millis, dt)
        e == DrainM7(Eff)
        popped == e.nPopped["m7"] - nPopped["m7"]
        received == eventsReceived + popped
        last == IF popped > 0 THEN currentMillis ELSE lastEventTime
    IN  /\ pc["M7"].op = "idle"
        /\ nLoops < MaxLoops
        /\ nLoops' = nLoops + 1
        /\ m7Millis' = currentMillis
        /\ eventsReceived' = received
        /\ lastEventTime' = last
        /\ warnings' = IF /\ DeltaTime(currentMillis, last) > EVENT_TIMEOUT
                          /\ received > 0
                          /\ (currentMillis \div 1000) % WARNING_SECONDS = 0
                       THEN Append(warnings, currentMillis)
                       ELSE warnings
        /\ Commit(e)
        /\ UNCHANGED <<holder, pc, sent, lastResult, out, balVarsButQueue, regVars,
                       tofVars, imuVars, dispVars, extVars>>

WatchdogNext ==
    \/ M7Startup /\ UNCHANGED otherVars
    \/ StartLoop /\ UNCHANGED otherVars
    \/ \E dt \in LoopDeltas : M7Loop(dt)

SpecWatchdog == Init /\ [][WatchdogNext]_vars

-----------------------------------------------------------------------------
(* The event switches: events of every kind sent to either core, and the drains  *)
(* that dispatch them                                                            *)

\* values of EventType: one for every combination of switches that have a case for
\* it (all three, processM4Event and processStatusEvent, the M7 queue test only,
\* processStatusEvent only, none), and one outside the enumeration
EventKinds ==
    {"SYSTEM_STARTUP", "EMERGENCY_STOP", "BALANCE_IMU_DATA", "MOTOR_STATUS",
     "SET_TARGET_POSITION", "UNDEFINED"}

\* the case labels of processM4Event, of processStatusEvent, and of the switch in
\* loop() of the M7 queue test
M4Cases == {"EMERGENCY_STOP", "SYSTEM_STARTUP"}
StatusCases ==
    {"SYSTEM_HEALTH", "BALANCE_STATUS", "COLLISION_WARNING", "EMERGENCY_STOP",
     "SYSTEM_STARTUP", "SAFETY_ALERT", "MOTOR_STATUS"}
TestCases == {"SYSTEM_STARTUP", "BALANCE_IMU_DATA"}

\* switch (eventType) with a break at the end of every case: the case of the value,
\* or default
SwitchBranch(cases, type) == IF type \in cases THEN type ELSE "default"

\* the branches taken for the events popped, in order
Handled(c, cases, events) ==
    [i \in 1..Len(events) |->
        [core |-> c, type |-> events[i].type,
         branch |-> SwitchBranch(cases, events[i].type)]]

\* EventBroadcaster::sendToM7 / sendToM4 called on core c with an event of any kind
PostEvent(c, type) ==
    /\ sent["M4"] + sent["M7"] < MaxPosts
    /\ sent' = [sent EXCEPT ![c] = @ + 1]
    /\ Commit(PushNow(Eff, PeerQueue(c), type, <<"data">>))
    /\ UNCHANGED <<holder, pc, lastResult, out, balVarsButQueue, otherVars>>

\* loop() on M4: while (m4EventQueue.pop(..)) processM4Event(..)
DispatchM4 ==
    /\ ProcessM4Events
    /\ handled' = Handled("M4", M4Cases, pending["m4"])
    /\ UNCHANGED <<regVars, tofVars, imuVars, m7Vars, extVars>>

\* loop() on M7: while (m7EventQueue.pop(..)) with the switch of the sketch
DispatchM7(cases) ==
    /\ ProcessM7Events
    /\ handled' = Handled("M7", cases, pending["m7"])
    /\ UNCHANGED <<regVars, tofVars, imuVars, m7Vars, extVars>>

DispatchNext ==
    \/ M7Startup /\ UNCHANGED otherVars
    \/ StartLoop /\ UNCHANGED otherVars
    \/ \E c \in Cores, type \in EventKinds : PostEvent(c, type)
    \/ DispatchM4
    \/ DispatchM7(StatusCases)
    \/ DispatchM7(TestCases)

SpecDispatch == Init /\ [][DispatchNext]_vars

\* the kinds sent while the drains are followed to the end: the two kinds M4 answers
\* and one it does not
DrainKinds == {"SYSTEM_STARTUP", "EMERGENCY_STOP", "BALANCE_IMU_DATA"}

DrainNext ==
    \/ M7Startup /\ UNCHANGED otherVars
    \/ StartLoop /\ UNCHANGED otherVars
    \/ DispatchM4
    \/ DispatchM7(StatusCases)
    \/ \E c \in Cores, type \in DrainKinds : PostEvent(c, type)

\* the steps of DrainNext by what they do to the position of a core and to the pop
\* counts: the end of setup() on M4 and on M7, and a drain of core c, which pops
\* every event waiting in the queue of c
EndsSetupM4 == ~ running /\ running' = TRUE
EndsSetupM7 == pc["M7"].op = "setup" /\ pc' = [pc EXCEPT !["M7"] = Idle]
Drains(c) ==
    /\ IF c = "M4" THEN running ELSE pc["M7"].op = "idle"
    /\ ~ QEmpty(queue[OwnQueue(c)])
    /\ nPopped' = [nPopped EXCEPT ![OwnQueue(c)] = @ + QCount(queue[OwnQueue(c)])]

\* both cores get through setup() and go round loop() for ever: a core that has the
\* end of setup() to make, or an event to pop in loop(), makes that step
SpecDrain ==
    /\ Init /\ [][DrainNext]_vars
    /\ WF_running(EndsSetupM4) /\ WF_pc(EndsSetupM7)
    /\ \A c \in Cores : WF_nPopped(Drains(c))

-----------------------------------------------------------------------------
(* ToFSensor with any observer: the bring-up with a sensor that answers, then    *)
(* setObserver() and update() calls in any order                                 *)

\* the arguments of setObserver(): nullptr, the sketch's observer, one that reacts
\* from farther away
ObstacleObservers == {NoObserver, ObserverWith(ObstacleThreshold), ObserverWith(100)}

\* ToFSensor::setObserver(observer)
SetObserver(s, o) ==
    /\ tofPc = <<"loop">>
    /\ tofObserver[s] # o
    /\ tofObserver' = [tofObserver EXCEPT ![s] = o]
    /\ Commit(Eff)
    /\ UNCHANGED <<tofPc, xshut, devAddr, tofInitialized, currentDistance, busCmd, nPolls,
                   lastPoll>>
    /\ ToFFrame

\* the measurements of at most one return
SingleReturns == {m \in Measurements : Len(m.returns) <= 1}

ObstacleNext ==
    \/ ShutDownBoth
    \/ \E s \in Sensors : ReleaseSensor(s)
    \/ \E s \in Sensors : SetDeviceAddress(s, TRUE)
    \/ \E s \in Sensors : FinishInit(s, TRUE)
    \/ SetupEnd
    \/ \E s \in Sensors, o \in ObstacleObservers : SetObserver(s, o)
    \/ \E s \in Sensors, m \in SingleReturns : ToFUpdate(s, m)

SpecObstacle == Init /\ [][ObstacleNext]_vars

-----------------------------------------------------------------------------
(* The text of an event from the producer's buffer to the consumer's buffer: a  *)
(* text is the sequence of its characters, each character named by the field of *)
(* the format it belongs to (0 for the literal characters of the format)        *)

\* exchanges of one event between a producer on M4 and the consumer on M7
MaxExchanges == 2

\* char text[48] of EventItem, the size the sketches name EVENT_MESSAGE_SIZE
EVENT_MESSAGE_SIZE == 48

\* char msg[64], char statusMsg[64], char eventBuffer[64] of the balancer sketches
BALANCER_BUFFER == 64

\* char msg[32] of ObstacleEventObserver::onObstacleDetection
OBSTACLE_BUFFER == 32

\* the decimal digits of a natural number
RECURSIVE Digits(_)
Digits(n) == IF n < 10 THEN 1 ELSE 1 + Digits(n \div 10)

\* 10^d
RECURSIVE Pow10(_)
Pow10(d) == IF d = 0 THEN 1 ELSE 10 * Pow10(d - 1)

\* the characters printf writes for "%.<d>f" of a value given in thousandths: sign,
\* integer digits, and the point with d decimals
WidthFloat(v, d) ==
    LET scaled == RoundDiv(v, Pow10(3 - d))
    IN  (IF scaled < 0 THEN 1 ELSE 0) + Digits(Abs(scaled) \div Pow10(d))
        + (IF d > 0 THEN d + 1 ELSE 0)

\* the characters printf writes for "%d"
WidthInt(n) == (IF n < 0 THEN 1 ELSE 0) + Digits(Abs(n))

\* n characters of field f
Chars(f, n) == [k \in 1..n |-> f]

\* the fields of a format one after the other, each a pair <<field, characters>>
RECURSIVE Formatted(_)
Formatted(parts) ==
    IF parts = <<>> THEN <<>>
    ELSE Chars(Head(parts)[1], Head(parts)[2]) \o Formatted(Tail(parts))

\* snprintf(buf, size, ..): at most size - 1 characters and the terminator
snprintf(size, text) == SubSeq(text, 1, IF Len(text) < size THEN Len(text) ELSE size - 1)

\* EventQueue::push copying the text into text[EVENT_MESSAGE_SIZE] of the slot
PayloadCopy(text) == snprintf(EVENT_MESSAGE_SIZE, text)

\* "%.3f,%.3f,%.3f,%.3f,%.3f,%.3f,%.3f" of ax, ay, az, gx, gy, gz, tiltAngle
ImuDataText(v) ==
    Formatted(<< <<1, WidthFloat(v[1], 3)>>, <<0, 1>>, <<2, WidthFloat(v[2], 3)>>, <<0, 1>>,
                 <<3, WidthFloat(v[3], 3)>>, <<0, 1>>, <<4, WidthFloat(v[4], 3)>>, <<0, 1>>,
                 <<5, WidthFloat(v[5], 3)>>, <<0, 1>>, <<6, WidthFloat(v[6], 3)>>, <<0, 1>>,
                 <<7, WidthFloat(v[7], 3)>> >>)

\* "%.0f,%.0f" of frontDistance, rearDistance (millimetres)
ToFDataText(front, rear) ==
    Formatted(<< <<1, WidthFloat(front * 1000, 0)>>, <<0, 1>>,
                 <<2, WidthFloat(rear * 1000, 0)>> >>)

\* "T:%.1f° F:%d R:%d" of tiltAngle, distanceForward, distanceRear; the degree sign
\* takes two bytes
StatusText(tilt, forward, rear) ==
    Formatted(<< <<0, 2>>, <<1, WidthFloat(tilt, 1)>>, <<0, 5>>, <<2, WidthInt(forward)>>,
                 <<0, 3>>, <<3, WidthInt(rear)>> >>)

\* "%s,%.0f" of _sensorId ("rear" or "front") and the distance
ObstacleText(sensorId, distance) ==
    Formatted(<< <<1, IF sensorId = "rear" THEN 4 ELSE 5>>, <<0, 1>>,
                 <<2, WidthFloat(distance * 1000, 0)>> >>)

\* "Forward obstacle: %d mm" / "Rear obstacle: %d mm"
AlertText(sensorId, distance) ==
    Formatted(<< <<0, IF sensorId = "rear" THEN 15 ELSE 18>>, <<1, WidthInt(distance)>>,
                 <<0, 3>> >>)

\* ax .. gz in thousandths of m/s^2 and rad/s, tiltAngle in thousandths of a degree:
\* at rest and level; leaning back 50 degrees while turning; a hard knock
ImuValues ==
    { <<0, 0, 9800, 0, 0, 0, 0>>,
      <<-7507, -120, 6299, -1000, -10, -20, -50000>>,
      <<-15250, -11300, 21700, -2500, -1750, -3100, -111180>> }

\* the events the producers on M4 build: kind, the text as formatted in full, and the
\* size of the buffer it is formatted into
Payloads ==
    {[type |-> "BALANCE_IMU_DATA", text |-> ImuDataText(v), size |-> EVENT_MESSAGE_SIZE] :
        v \in ImuValues}
    \cup {[type |-> "TOF_DATA", text |-> ToFDataText(150, -1), size |-> EVENT_MESSAGE_SIZE],
          [type |-> "SYSTEM_HEALTH", text |-> StatusText(-111180, -32768, 8190),
           size |-> BALANCER_BUFFER],
          [type |-> "PROXIMITY_WARNING", text |-> ObstacleText("front", 15),
           size |-> OBSTACLE_BUFFER],
          [type |-> "COLLISION_WARNING", text |-> AlertText("front", -32768),
           size |-> BALANCER_BUFFER]}

\* the receive buffers of the consumers: eventData[EVENT_MESSAGE_SIZE] of the queue
\* tests, eventBuffer[64] of the balancer sketches
ReceiveBuffers == {EVENT_MESSAGE_SIZE, BALANCER_BUFFER}

\* what the exchange leaves alone
PayloadFrame ==
    UNCHANGED <<holder, pc, sent, lastResult, out, running, observers,
                emergencyStopActive, updVars, notPayVars>>

\* a producer on M4: snprintf(msg, sizeof(msg), ..), then sendToM7(type, msg)
SendPayload(p) ==
    /\ running
    /\ nReports < MaxExchanges
    /\ nReports' = nReports + 1
    /\ built' = p.text
    /\ Commit(SendToM7Now(Eff, p.type, PayloadCopy(snprintf(p.size, p.text))))
    /\ UNCHANGED gotEvent
    /\ PayloadFrame

\* the consumer on M7: one m7EventQueue.pop(eventType, eventData) into a buffer of
\* size bytes, which is not less than the size of the payload
ReceivePayload(size) ==
    LET e == PopNow(Eff, "M7")
    IN  /\ pc["M7"].op = "idle"
        /\ size >= EVENT_MESSAGE_SIZE
        /\ gotEvent' = IF e.ok
                       THEN [ok |-> TRUE, type |-> e.item.type, text |-> e.item.text]
                       ELSE NoEvent
        /\ Commit(e)
        /\ UNCHANGED <<built, nReports>>
        /\ PayloadFrame

PayloadNext ==
    \/ M7Startup /\ UNCHANGED otherVars
    \/ StartLoop /\ UNCHANGED otherVars
    \/ \E p \in Payloads : SendPayload(p)
    \/ \E size \in ReceiveBuffers : ReceivePayload(size)

SpecPayload == Init /\ [][PayloadNext]_vars

-----------------------------------------------------------------------------
(* BalanceIMU at rest: after some updates with any readings, the robot is held  *)
(* still at one tilt and update() runs every 10 ms                               *)

\* successive updates with the robot held still
MaxSteady == 450

\* the accelerometer of a robot held still: level, accel (0, 0, 9.8), and leaning 30
\* degrees, accel (9.8 sin 30, 0, 9.8 cos 30), each with atan2(accelX, accelZ)
SteadySamples ==
    { [x |-> 0,    z |-> 9800, atan2 |-> 0],
      [x |-> 4900, z |-> 8487, atan2 |-> 30000] }

\* the state outside the queues and the balance loop that setup() leaves alone
notIniVars ==
    <<regVars, tofVars, imuVars, m7Vars, dispVars, cnvVars, hwVars, rstVars, termVars>>

\* the state outside the balance loop that update() leaves alone
notCnvVars ==
    <<regVars, tofVars, imuVars, m7Vars, dispVars, payVars, iniVars, hwVars, rstVars,
      termVars>>

\* update() with the robot held still at the tilt of sample: the gyroscope reads zero
SteadyUpdate(sample) ==
    /\ nSteady < MaxSteady
    /\ nSteady > 0 => steadyTilt = calculateTiltFromAccel(sample)
    /\ steadyTilt' = calculateTiltFromAccel(sample)
    /\ nSteady' = nSteady + 1
    /\ UpdateFrom(sample, 0, 10)
    /\ UNCHANGED <<nUpdates, notCnvVars>>

\* update() while the robot still moves
MovingUpdate(sample, gyroRate, deltaMs) ==
    /\ nSteady = 0
    /\ Update(sample, gyroRate, deltaMs)
    /\ UNCHANGED otherVars

SteadyNext ==
    \/ StartLoop /\ UNCHANGED otherVars
    \/ \E in \in UpdateInputs : MovingUpdate(in.r.accel, in.r.gyro, in.dt)
    \/ \E sample \in SteadySamples : SteadyUpdate(sample)

SpecSteady == Init /\ [][SteadyNext]_vars

-----------------------------------------------------------------------------
(* Power-on: the two cores run their setup() side by side.  The queues live in  *)
(* shared memory, which holds whatever it held before until initialize() runs.  *)

\* the pairs of sketches: the balancer (M7 display sketch, M4 balancer), and the queue
\* test with the M7 sketch that boots M4 before it initializes the queues and with the
\* one that boots M4 after
Sketches == {"balancer", "testEarlyBoot", "testLateBoot"}

\* a record left in shared memory by an earlier run, or what reads as one
StaleItem == EventItem("SYSTEM_STARTUP", <<"stale">>)
StaleData == EventItem("BALANCE_IMU_DATA", StaleItem.text)

\* what the queue memory can hold at power-on, as pop would read it: nothing unread, or
\* an unread record at the read index
PowerOnRings ==
    {InitializedQueue,
     [InitializedQueue EXCEPT !.items[0] = StaleItem],
     [InitializedQueue EXCEPT !.items[0] = StaleData]}

\* the steps of setup() on M7
M7Program(sk) ==
    IF sk = "testEarlyBoot" THEN <<"boot", "init_m4", "init_m7", "broadcast", "loop">>
    ELSE IF sk = "testLateBoot" THEN <<"init_m4", "init_m7", "boot", "broadcast", "loop">>
    ELSE <<"init_m4", "init_m7", "broadcast", "loop">>

\* the steps of setup() on M4: the balancer starts with the board, the queue test when
\* M7 boots the core
M4Program(sk) ==
    IF sk = "balancer" THEN <<"init_m4", "init_m7", "announce", "loop">> ELSE <<"off">>

\* the records of a queue that were pushed in this run
Pushed(records) == SelectSeq(records, LAMBDA r : r.text # StaleItem.text)

\* a push or pop on the queues qs: it is noted when the queue was never initialized
Touch(qs) ==
    usedBefore' = [q \in QueueIds |-> usedBefore[q] \/ (q \in qs /\ initLog[q] = <<>>)]

\* what the steps of setup() leave alone
BootFrame ==
    UNCHANGED <<holder, sent, lastResult, out, observers, emergencyStopActive, nReports,
                updVars, built, sketch, notIniVars>>

\* power-on with the sketches sk flashed and the queue memory holding ring
PowerOn(sk, ring) ==
    /\ sketch = "none"
    /\ sketch' = sk
    /\ bootPc' = [M7 |-> M7Program(sk), M4 |-> M4Program(sk)]
    /\ queue' = [q \in QueueIds |-> ring]
    /\ pending' = [q \in QueueIds |-> UnreadInOrder(ring)]
    /\ UNCHANGED <<nAccepted, nPopped, dropped, ledRedBlinks, pc, running, gotEvent,
                   initLog, usedBefore>>
    /\ UNCHANGED <<holder, sent, lastResult, out, observers, emergencyStopActive, nReports,
                   updVars, built, notIniVars>>

\* RPC.begin() on M7 boots M4, which starts the wait of its setup()
BootM4 ==
    /\ Head(bootPc["M7"]) = "boot"
    /\ bootPc' = [M7 |-> Tail(bootPc["M7"]), M4 |-> <<"wait", "loop">>]
    /\ Commit(Eff)
    /\ UNCHANGED <<pc, running, gotEvent, initLog, usedBefore>>
    /\ BootFrame

\* m4EventQueue.initialize() / m7EventQueue.initialize() on core c: every slot
\* consumed, the indices at 0; the records the queue held are gone
InitializeQueue(c, q) ==
    /\ Head(bootPc[c]) = IF q = "m4" THEN "init_m4" ELSE "init_m7"
    /\ bootPc' = [bootPc EXCEPT ![c] = Tail(@)]
    /\ queue' = [queue EXCEPT ![q] = InitializedQueue]
    /\ pending' = [pending EXCEPT ![q] = <<>>]
    /\ initLog' = [initLog EXCEPT ![q] =
                      Append(@, [by |-> c, lost |-> Len(Pushed(pending[q]))])]
    /\ UNCHANGED <<nAccepted, nPopped, dropped, ledRedBlinks, pc, running, gotEvent,
                   usedBefore>>
    /\ BootFrame

\* setup() on M7: broadcastEvent(EVENT_SYSTEM_STARTUP, ..), then loop()
BroadcastStartup ==
    /\ Head(bootPc["M7"]) = "broadcast"
    /\ bootPc' = [bootPc EXCEPT !["M7"] = Tail(@)]
    /\ pc' = [pc EXCEPT !["M7"] = Idle]
    /\ Commit(BroadcastNow(Eff, "SYSTEM_STARTUP", <<"M7 ready">>))
    /\ Touch(QueueIds)
    /\ UNCHANGED <<running, gotEvent, initLog>>
    /\ BootFrame

\* setup() of the M4 queue test: one turn of
\*   while (!m4EventQueue.pop(startType, nullptr) || startType != EVENT_SYSTEM_STARTUP);
\* and, when the turn ends the wait, the rest of setup(): the observer, the sensors and
\* the "M4 Initialized" event
WaitForStartup ==
    LET e1 == PopNow(Eff, "M4")
        done == e1.ok /\ e1.item.type = "SYSTEM_STARTUP"
    IN  /\ Head(bootPc["M4"]) = "wait"
        /\ gotEvent' = IF e1.ok
                       THEN [ok |-> TRUE, type |-> e1.item.type, text |-> e1.item.text]
                       ELSE NoEvent
        /\ bootPc' = [bootPc EXCEPT !["M4"] = IF done THEN Tail(@) ELSE @]
        /\ running' = done
        /\ Commit(IF done THEN SetupReports(e1, TRUE, TRUE) ELSE e1)
        /\ Touch(IF done THEN QueueIds ELSE {"m4"})
        /\ UNCHANGED <<pc, initLog>>
        /\ BootFrame

\* setup() of the M4 balancer after the sensors: sendToM7(EVENT_SYSTEM_HEALTH, ..), then
\* loop()
AnnounceM4 ==
    /\ Head(bootPc["M4"]) = "announce"
    /\ bootPc' = [bootPc EXCEPT !["M4"] = Tail(@)]
    /\ running' = TRUE
    /\ Commit(SendToM7Now(Eff, "SYSTEM_HEALTH", <<"M4 hardware validation mode">>))
    /\ Touch({"m7"})
    /\ UNCHANGED <<pc, gotEvent, initLog>>
    /\ BootFrame

\* while (queue.pop(..)) with a body that sends nothing
RECURSIVE DrainOnly(_, _)
DrainOnly(e, c) ==
    LET e1 == PopNow(e, c)
    IN  IF e1.ok THEN DrainOnly(e1, c) ELSE e1

\* loop() on core c: the drain of its queue; the M4 balancer answers through
\* processM4Event
LoopDrain(c) ==
    /\ Head(bootPc[c]) = "loop"
    /\ ~ QEmpty(queue[OwnQueue(c)])
    /\ Commit(IF c = "M4" /\ sketch = "balancer" THEN DrainM4(Eff) ELSE DrainOnly(Eff, c))
    /\ Touch(IF c = "M4" THEN QueueIds ELSE {"m7"})
    /\ UNCHANGED <<pc, running, gotEvent, bootPc, initLog>>
    /\ BootFrame

PowerOnNext ==
    \/ \E sk \in Sketches, ring \in PowerOnRings : PowerOn(sk, ring)
    \/ BootM4
    \/ \E c \in Cores, q \in QueueIds : InitializeQueue(c, q)
    \/ BroadcastStartup
    \/ WaitForStartup
    \/ AnnounceM4
    \/ \E c \in Cores : LoopDrain(c)

SpecPowerOn == Init /\ [][PowerOnNext]_vars

\* M4 is scheduled: the wait of its setup() keeps turning
SpecPowerOnFair == SpecPowerOn /\ WF_vars(WaitForStartup)

-----------------------------------------------------------------------------
(* The hardware-validation sketch on M4: updateTofSensors() with its            *)
(* per-sensor obstacle flags, and loop() with its three periodic tasks          *)

\* calls of updateTofSensors() followed on their own
MaxPasses == 4

\* loop() iterations on M4 against the clock
MaxIterations == 4

\* sendToM4 calls of the M7 loop
MaxCommands == 6

COLLISION_THRESHOLD == 100

BALANCE_UPDATE_INTERVAL == 10
TOF_UPDATE_INTERVAL == 50
STATUS_REPORT_INTERVAL == 100

Interval(t) ==
    CASE t = "balance" -> BALANCE_UPDATE_INTERVAL
      [] t = "tof" -> TOF_UPDATE_INTERVAL
      [] t = "status" -> STATUS_REPORT_INTERVAL

\* what a sensor answers to dataReady() and getResult(): no new data; data with an
\* error status; a distance just below the threshold; a distance at the threshold
TofAnswers ==
    { [ready |-> FALSE, ok |-> FALSE, distance |-> 0],
      [ready |-> TRUE,  ok |-> FALSE, distance |-> 0],
      [ready |-> TRUE,  ok |-> TRUE,  distance |-> COLLISION_THRESHOLD - 1],
      [ready |-> TRUE,  ok |-> TRUE,  distance |-> COLLISION_THRESHOLD] }

\* a variant of the obstacle check that warns on every reading below the threshold
WarnsOnLevel(obstacleNow, detected) == obstacleNow

\* updateTofSensors(): if (obstacleNow && !forwardObstacleDetected)
WarnsOnEdge(obstacleNow, detected) == obstacleNow /\ ~ detected

\* updateTofSensors(), the block of one sensor with the sensor answering ans: what
\* it read, the flag before, whether it warned and whether it cleared the interrupt,
\* and the distance and the flag it leaves
ReadSensor(s, ans) ==
    IF ~ (tofActive[s] /\ ans.ready)
    THEN [read |-> "skipped", distance |-> distanceMm[s], was |-> obstacleDetected[s],
          warned |-> FALSE, cleared |-> FALSE, detected |-> obstacleDetected[s]]
    ELSE IF ~ ans.ok
         THEN [read |-> "error", distance |-> distanceMm[s],
               was |-> obstacleDetected[s], warned |-> FALSE, cleared |-> TRUE,
               detected |-> obstacleDetected[s]]
         ELSE LET obstacleNow == ans.distance < COLLISION_THRESHOLD
                  warns == WarnsOnEdge(obstacleNow, obstacleDetected[s])
              IN  [read |-> "ok", distance |-> ans.distance,
                   was |-> obstacleDetected[s], warned |-> warns, cleared |-> TRUE,
                   detected |-> IF warns
                                THEN TRUE
                                ELSE IF ~ obstacleNow /\ obstacleDetected[s]
                                     THEN FALSE
                                     ELSE obstacleDetected[s]]

\* snprintf(msg, sizeof(msg), "Forward obstacle: %d mm", distanceForward)
WarningText(s, distance) ==
    <<IF s = "front" THEN "Forward obstacle: %d mm" ELSE "Rear obstacle: %d mm",
      distance>>

\* updateTofSensors(): the warning of one sensor's block, if it warned
SendWarning(e, s, r) ==
    IF r.warned
    THEN SendToM7Now(e, "COLLISION_WARNING", WarningText(s, r.distance))
    ELSE e

\* updateTofSensors(): the forward sensor, then the rear sensor
updateTofSensors(e, answers) ==
    LET f == ReadSensor("front", answers.front)
        r == ReadSensor("rear", answers.rear)
    IN  [e |-> SendWarning(SendWarning(e, "front", f), "rear", r),
         pass |-> [s \in Sensors |-> IF s = "front" THEN f ELSE r]]

\* the readings of a sensor since its last warning, after one more block
SinceWarning(before, r) ==
    IF r.warned
    THEN "warned"
    ELSE IF r.read = "ok" /\ r.distance >= COLLISION_THRESHOLD /\ before = "warned"
         THEN "cleared"
         ELSE before

\* what updateTofSensors() leaves in the sketch's globals
StorePass(t) ==
    /\ obstacleDetected' = [s \in Sensors |-> t.pass[s].detected]
    /\ distanceMm' = [s \in Sensors |-> t.pass[s].distance]
    /\ tofPass' = [s \in Sensors |->
                      [read |-> t.pass[s].read, distance |-> t.pass[s].distance,
                       was |-> t.pass[s].was, warned |-> t.pass[s].warned,
                       cleared |-> t.pass[s].cleared]]
    /\ sinceWarning' = [s \in Sensors |-> SinceWarning(sinceWarning[s], t.pass[s])]

\* what the sketch leaves alone outside its own globals
HwFrame ==
    UNCHANGED <<holder, pc, sent, lastResult, out, observers, nReports, notHwVars>>

\* setup(): the end of it, begin() and startRanging() of each sensor succeeding or
\* not, then sendToM7(EVENT_SYSTEM_HEALTH, "M4 hardware validation mode")
ValidationSetup(active) ==
    /\ StartLoop
    /\ tofActive' = active
    /\ UNCHANGED <<obstacleDetected, distanceMm, tofPass, sinceWarning, loopMillis,
                   lastRun, sinceRun, loopLog, nIterations>>
    /\ UNCHANGED notHwVars

\* loop(): the ToF task on its own, its interval having elapsed
TofTask(answers) ==
    LET t == updateTofSensors(Eff, answers)
    IN  /\ running
        /\ nIterations < MaxPasses
        /\ nIterations' = nIterations + 1
        /\ StorePass(t)
        /\ Commit(t.e)
        /\ UNCHANGED <<running, emergencyStopActive, updVars>>
        /\ UNCHANGED <<tofActive, loopMillis, lastRun, sinceRun, loopLog>>
        /\ HwFrame

\* loop() on M7 draining its queue
M7Drain == ProcessM7Events /\ UNCHANGED otherVars

CollisionNext ==
    \/ M7Startup /\ UNCHANGED otherVars
    \/ \E active \in [Sensors -> BOOLEAN] : ValidationSetup(active)
    \/ \E answers \in [front : TofAnswers, rear : TofAnswers] : TofTask(answers)
    \/ M7Drain

SpecCollision == Init /\ [][CollisionNext]_vars

\* milliseconds from the millis() of one loop() iteration to that of the next: the
\* delay at the end of loop() and the time the iteration took
IterationTimes == {5, 50}

\* millis() 60 ms before the 32-bit counter wraps to 0
WrapEve == -60

\* a >= b on unsigned long values, given as their 32-bit patterns
UnsignedGe(a, b) == IF (a < 0) = (b < 0) THEN a >= b ELSE a < 0

\* a variant of the interval test that compares the time with the sum of the last
\* run and the interval
DueNaive(currentMillis, last, interval) ==
    UnsignedGe(currentMillis, MillisAfter(last, interval))

\* loop(): if (currentMillis - lastBalanceUpdate >= BALANCE_UPDATE_INTERVAL), an
\* unsigned subtraction
Due(currentMillis, last, interval) ==
    UnsignedGe(DeltaTime(currentMillis, last), interval)

\* loop(): the number of m4EventQueue.pop calls of the while loop, the one that
\* reports empty included
RECURSIVE PopCalls(_)
PopCalls(e) ==
    LET e1 == PopNow(e, "M4")
    IN  IF e1.ok THEN 1 + PopCalls(ProcessM4EventReply(e1, e1.item.type)) ELSE 1

\* snprintf(statusMsg, .., "T:%.1f° F:%d R:%d", tiltAngle, distanceForward,
\* distanceRear)
ValidationStatus(angle, distances) ==
    FormatStatus(angle) \o <<distances["front"], distances["rear"]>>

\* what the sensors answer in the iterations followed against the clock: nothing
\* new, or the forward sensor reads just below the threshold
LoopAnswers ==
    { [front |-> a, rear |-> [ready |-> FALSE, ok |-> FALSE, distance |-> 0]] :
        a \in {b \in TofAnswers : b.distance < COLLISION_THRESHOLD /\ b.ok = b.ready} }

\* one iteration of loop() on M4, dt milliseconds after the last one, with the robot
\* level and at rest and no push of M7 during the iteration
M4Iteration(dt, answers) ==
    LET currentMillis == MillisAfter(loopMillis, dt)
        due == [t \in Tasks |-> Due(currentMillis, lastRun[t], Interval(t))]
        newTilt == IF due["balance"]
                   THEN applyComplementaryFilter(
                            currentTiltAngle,
                            calculateTiltFromAccel(LevelInput.r.accel),
                            LevelInput.r.gyro,
                            DeltaTime(currentMillis, lastUpdateTime))
                   ELSE currentTiltAngle
        e1 == IF due["balance"]
              THEN NotifyEmergency(NotifyTiltChange(Eff, currentTiltAngle, newTilt),
                                   currentTiltAngle, newTilt)
              ELSE Eff
        t == updateTofSensors(e1, answers)
        e2 == IF due["tof"] THEN t.e ELSE e1
        e3 == DrainM4(e2)
        distances == [s \in Sensors |->
                         IF due["tof"] THEN t.pass[s].distance ELSE distanceMm[s]]
        e4 == IF due["status"]
              THEN SendToM7Now(e3, "SYSTEM_HEALTH", ValidationStatus(newTilt, distances))
              ELSE e3
        elapsed == [k \in Tasks |-> sinceRun[k] + dt]
    IN  /\ running
        /\ nIterations < MaxIterations
        /\ nIterations' = nIterations + 1
        /\ loopMillis' = currentMillis
        /\ lastRun' = [k \in Tasks |-> IF due[k] THEN currentMillis ELSE lastRun[k]]
        /\ sinceRun' = [k \in Tasks |-> IF due[k] THEN 0 ELSE elapsed[k]]
        /\ loopLog' = [ran |-> [k \in Tasks |-> IF due[k] THEN 1 ELSE 0],
                       elapsed |-> elapsed,
                       pops |-> PopCalls(e2),
                       waiting |-> QCount(queue["m4"])]
        /\ IF due["balance"]
           THEN /\ lastReadOK' = TRUE
                /\ currentTiltAngle' = newTilt
                /\ reading' = LevelInput.r
                /\ lastUpdateTime' = currentMillis
                /\ prevTilt' = currentTiltAngle
                /\ calls' = e1.calls
                /\ cmds' = e1.cmds
                /\ wasStopped' = emergencyStopActive
                /\ UNCHANGED nUpdates
           ELSE UNCHANGED updVars
        /\ emergencyStopActive' = e4.estop
        /\ IF due["tof"]
           THEN StorePass(t)
           ELSE UNCHANGED <<obstacleDetected, distanceMm, tofPass, sinceWarning>>
        /\ Commit(e4)
        /\ UNCHANGED <<running, tofActive>>
        /\ HwFrame

\* the sketch has run for 49.7 days: the iteration 60 ms before millis() wraps, in
\* which the three tasks ran
RunForWeeks ==
    /\ running
    /\ nIterations = 0
    /\ loopMillis = 0
    /\ loopMillis' = WrapEve
    /\ lastRun' = [k \in Tasks |-> WrapEve]
    /\ lastUpdateTime' = WrapEve
    /\ UNCHANGED <<tofActive, obstacleDetected, distanceMm, tofPass, sinceWarning,
                   sinceRun, loopLog, nIterations>>
    /\ UNCHANGED <<chanVars, running, observers, currentTiltAngle, reading,
                   emergencyStopActive, ledRedBlinks, calls, cmds, prevTilt, wasStopped,
                   lastReadOK, nUpdates, nReports, dropped>>
    /\ UNCHANGED notHwVars

\* one iteration of loop() on M7 in the queue test: the ping to M4, its interval
\* having elapsed or not, then the drain of m7EventQueue; no push of M4 during it
M7PingLoop(ping) ==
    LET e1 == IF ping
              THEN PushNow(Eff, "m4", "EMERGENCY_STOP", MsgText("M7"))
              ELSE Eff
    IN  /\ pc["M7"].op = "idle"
        /\ IF ping THEN sent["M7"] < MaxCommands ELSE ~ QEmpty(queue["m7"])
        /\ sent' = [sent EXCEPT !["M7"] = IF ping THEN @ + 1 ELSE @]
        /\ Commit(DrainM7(e1))
        /\ UNCHANGED <<holder, pc, lastResult, out, balVarsButQueue, otherVars>>

LoopNext ==
    \/ M7Startup /\ UNCHANGED otherVars
    \/ ValidationSetup([s \in Sensors |-> TRUE])
    \/ RunForWeeks
    \/ \E dt \in IterationTimes, answers \in LoopAnswers : M4Iteration(dt, answers)
    \/ \E ping \in BOOLEAN : M7PingLoop(ping)

SpecLoop == Init /\ [][LoopNext]_vars

-----------------------------------------------------------------------------
(* The balance loop with resetEmergencyStop() calls followed to the update()    *)
(* after them                                                                   *)

\* turning at 0.81 rad/s through a loop stalled for a second: the filtered angle
\* goes from level to 45.482 degrees
SlowTurn ==
    [r |-> [accel |-> [x |-> 0, z |-> 9800, atan2 |-> 0], gyro |-> 810], dt |-> 1000]

ResetInputs == UpdateInputs \cup {SlowTurn}

\* resetEmergencyStop() called in loop(); beyond the limit the call awaits the next
\* update() that gets a reading
ResetCall ==
    /\ resetEmergencyStop
    /\ resetAt' = IF IsEmergency(currentTiltAngle) THEN nUpdates ELSE -1
    /\ UNCHANGED notRstVars

\* update() with a failed read: a reset that awaits its update() goes on waiting
ReadFailsAfterReset ==
    /\ UpdateReadFails
    /\ resetAt' = IF resetAt = nUpdates THEN nUpdates + 1 ELSE resetAt
    /\ UNCHANGED notRstVars

ResetNext ==
    \/ \E o \in {"motorController", "eventObserver"} :
          addObserver(o) /\ UNCHANGED otherVars
    \/ StartLoop /\ UNCHANGED otherVars
    \/ \E in \in ResetInputs :
          Update(in.r.accel, in.r.gyro, in.dt) /\ UNCHANGED otherVars
    \/ ReadFailsAfterReset
    \/ ResetCall

SpecReset == Init /\ [][ResetNext]_vars

-----------------------------------------------------------------------------
(* The terminal display of the M7 core: clear(), print() and println() calls in *)
(* any order, with texts of any length                                          *)

\* number of calls made on the display in one run
MaxCalls == 3

\* the display's own fields, as one value the member functions transform
Term ==
    [lines |-> lines, lineColors |-> lineColors, currentLine |-> currentLine,
     currentColumn |-> currentColumn, screenFull |-> screenFull]

\* the characters of the text passed in call c: distinct, and distinct from those of
\* every other call
TextOf(c, n) == [i \in 1 .. n |-> <<c, i>>]

\* lengths of the texts passed: empty, a full line, a line and one character, and
\* more than the screen holds
TextLengths == {0, MAX_LINE_LENGTH, MAX_LINE_LENGTH + 1, MAX_LINES * MAX_LINE_LENGTH + 10}

\* the const char* arguments: a null pointer, or a string of one of the lengths
Texts(c) ==
    {[null |-> TRUE, chars |-> <<>>]}
        \cup {[null |-> FALSE, chars |-> TextOf(c, n)] : n \in TextLengths}

TermColors == {"TEXT_COLOR", "RED_COLOR"}

\* the loop of clear() and of println(): every line emptied and set to TEXT_COLOR, the
\* cursor to the top left, screenFull to false
Cleared(d) ==
    [d EXCEPT !.lines = [i \in LineIds |-> <<>>],
              !.lineColors = [i \in LineIds |-> "TEXT_COLOR"],
              !.currentLine = 0,
              !.currentColumn = 0,
              !.screenFull = FALSE]

\* moveCursorToNextLine() without currentColumn = 0
moveCursorKeepingColumn(d) ==
    LET next == d.currentLine + 1
        full == next >= MAX_LINES
        line == IF full THEN MAX_LINES - 1 ELSE next
    IN  [d EXCEPT !.currentLine = line,
                  !.screenFull = IF full THEN TRUE ELSE @,
                  !.lines[line] = <<>>,
                  !.lineColors[line] = "TEXT_COLOR"]

\* TerminalDisplay::moveCursorToNextLine()
moveCursorToNextLine(d) ==
    LET next == d.currentLine + 1
        full == next >= MAX_LINES
        line == IF full THEN MAX_LINES - 1 ELSE next
    IN  [d EXCEPT !.currentLine = line,
                  !.currentColumn = 0,
                  !.screenFull = IF full THEN TRUE ELSE @,
                  !.lines[line] = <<>>,
                  !.lineColors[line] = "TEXT_COLOR"]

\* strncat(lines[currentLine] + currentColumn, text + pos, n): the n characters go
\* behind the first '\0' at or after the column. When the line is shorter than the
\* column they land behind its terminator and the line reads as before.
strncatAt(line, column, chunk) ==
    IF Len(line) >= column THEN line \o chunk ELSE line

\* one iteration of the while loop of print()
PrintBody(d, chars, color, pos) ==
    LET remainingSpace == MAX_LINE_LENGTH - d.currentColumn
        left == Len(chars) - pos
        charsToWrite == IF remainingSpace < left THEN remainingSpace ELSE left
        d1 == [d EXCEPT !.lines[d.currentLine] =
                            strncatAt(@, d.currentColumn,
                                      SubSeq(chars, pos + 1, pos + charsToWrite)),
                        !.currentColumn = @ + charsToWrite]
        pos1 == pos + charsToWrite
        d2 == IF d1.currentColumn >= MAX_LINE_LENGTH \/ pos1 < Len(chars)
              THEN LET moved == moveCursorToNextLine(d1)
                   IN  IF pos1 < Len(chars)
                       THEN [moved EXCEPT !.lineColors[moved.currentLine] = color]
                       ELSE moved
              ELSE d1
    IN  [d |-> d2, pos |-> pos1]

\* while (pos < textLen) { .. }: the display when the loop ends and the number of
\* iterations it took. An iteration that changes neither the display nor pos is
\* followed by the same iteration for ever: done is FALSE.
RECURSIVE PrintLoop(_, _, _, _, _)
PrintLoop(d, chars, color, pos, n) ==
    IF pos >= Len(chars)
    THEN [d |-> d, done |-> TRUE, iterations |-> n]
    ELSE LET b == PrintBody(d, chars, color, pos)
         IN  IF b.d = d /\ b.pos = pos
             THEN [d |-> d, done |-> FALSE, iterations |-> n]
             ELSE PrintLoop(b.d, chars, color, b.pos, n + 1)

\* TerminalDisplay::print(text, color)
print(d, text, color) ==
    IF text.null
    THEN [d |-> d, done |-> TRUE, iterations |-> 0]
    ELSE PrintLoop([d EXCEPT !.lineColors[d.currentLine] = color],
                   text.chars, color, 0, 0)

\* TerminalDisplay::println(text, color)
println(d, text, color) ==
    LET start == IF d.screenFull THEN Cleared(d) ELSE d
        p == print(start, text, color)
    IN  [p EXCEPT !.d = moveCursorToNextLine(@)]

\* the display after a call, and what the call was
TermStore(op, text, r) ==
    /\ lines' = r.d.lines
    /\ lineColors' = r.d.lineColors
    /\ currentLine' = r.d.currentLine
    /\ currentColumn' = r.d.currentColumn
    /\ screenFull' = r.d.screenFull
    /\ lastCall' = [op |-> op, null |-> text.null, text |-> text.chars,
                    wasFull |-> screenFull, done |-> r.done,
                    iterations |-> r.iterations]
    /\ nCalls' = nCalls + 1
    /\ UNCHANGED <<chanVars, balVars, notTermVars>>

\* a call of clear()
TermClear ==
    /\ nCalls < MaxCalls
    /\ TermStore("clear", [null |-> FALSE, chars |-> <<>>],
                 [d |-> Cleared(Term), done |-> TRUE, iterations |-> 0])

\* a call of print(text, color)
TermPrint(text, color) ==
    /\ nCalls < MaxCalls
    /\ TermStore("print", text, print(Term, text, color))

\* a call of println(text, color)
TermPrintln(text, color) ==
    /\ nCalls < MaxCalls
    /\ TermStore("println", text, println(Term, text, color))

TermNext ==
    \/ TermClear
    \/ \E text \in Texts(nCalls + 1), color \in TermColors : TermPrint(text, color)
    \/ \E text \in Texts(nCalls + 1), color \in TermColors : TermPrintln(text, color)

\* the terminal display under any sequence of at most MaxCalls calls
SpecTerm == Init /\ [][TermNext]_vars

(* Properties of the event queues, checked under Spec *)

\* core c completes a pop in this step
PopReturns(c) == pc[c].op = "pop" /\ pc'[c].op # "pop"

\* core c completes a push into queue q in this step
PushReturns(c, q) == pc[c].op = "push" /\ pc[c].q = q /\ pc'[c] # pc[c]

\* C1: within one queue, every successful pop returns the oldest accepted record
\* not yet popped, with its type and its payload: the k-th successful pop returns
\* the k-th accepted push.
C1_FifoOrder ==
    [][\A c \in Cores :
          (PopReturns(c) /\ out'[c].ok) =>
              /\ pending[OwnQueue(c)] # <<>>
              /\ [type |-> out'[c].type, text |-> out'[c].text]
                     = Head(pending[OwnQueue(c)])]_vars

\* a pop has returned a record after the ring wrapped around
C1_Witness ==
    \E c \in Cores :
        /\ out[c].ok
        /\ nPopped[OwnQueue(c)] > QUEUE_SIZE

\* C2: a push into a queue that holds QUEUE_SIZE unconsumed records returns false
\* and changes nothing: the ring is as before and still yields its QUEUE_SIZE
\* records in the order they were accepted.
C2_FullPushRefused ==
    [][\A c \in Cores : \A q \in QueueIds :
          (PushReturns(c, q) /\ QCount(queue[q]) = QUEUE_SIZE) =>
              /\ ~ lastResult'[c]
              /\ queue'[q] = queue[q]
              /\ QCount(queue'[q]) = QUEUE_SIZE
              /\ UnreadInOrder(queue'[q]) = pending[q]
              /\ Len(pending[q]) = QUEUE_SIZE]_vars

\* a send call has returned false, its queue holding QUEUE_SIZE records
C2_Witness ==
    \E c \in Cores :
        /\ pc[c].op = "idle"
        /\ ~ lastResult[c]
        /\ QCount(queue[PeerQueue(c)]) = QUEUE_SIZE

\* C3: in every interleaving of the two cores, the unconsumed records of each
\* ring, read from the read index on, are exactly the accepted records not yet
\* popped, each once and in order: none is lost, overwritten or kept after its pop.
C3_ExactlyOnce ==
    \A q \in QueueIds : UnreadInOrder(queue[q]) = pending[q]

\* a ring that wrapped around holds records while both cores are inside a call
C3_Witness ==
    \E q \in QueueIds :
        /\ nAccepted[q] > QUEUE_SIZE
        /\ pending[q] # <<>>
        /\ \A c \in Cores : pc[c].op \in {"push", "pop"}

\* C4: the count of each queue is between 0 and QUEUE_SIZE and equals the number
\* of accepted pushes minus the number of successful pops.
C4_CountInvariant ==
    /\ getM4QueueCount \in 0 .. QUEUE_SIZE
    /\ getM7QueueCount \in 0 .. QUEUE_SIZE
    /\ getM4QueueCount = nAccepted["m4"] - nPopped["m4"]
    /\ getM7QueueCount = nAccepted["m7"] - nPopped["m7"]

\* a queue is full after at least one pop
C4_Witness ==
    \E q \in QueueIds : QCount(queue[q]) = QUEUE_SIZE /\ nPopped[q] > 0

\* C14: each queue has one producer core and one consumer core: a core pushes only
\* into the queue the other core consumes, and pops only from its own queue
C14_SingleProducerConsumer ==
    \A c \in Cores :
        /\ pc[c].op = "push" => pc[c].q = PeerQueue(c)
        /\ pc[c].op = "pop" => pc[c].q = OwnQueue(c)

\* M7 is inside a push into m7EventQueue, the queue its own loop pops
C14_Witness ==
    /\ pc["M7"].op = "push"
    /\ pc["M7"].q = OwnQueue("M7")
    /\ holder["m7"] = "M7"

\* core c is inside the critical section of queue q
InCritical(c, q) == pc[c].op \in {"push", "pop"} /\ pc[c].q = q

\* C15: the two cores are never both inside the critical section of one queue, and
\* a queue's lock is held exactly while one push or pop on it is running: it is free
\* whenever its holder-to-be is between operations, which is where the sensor reads
\* of the loop happen
C15_MutualExclusion ==
    \A q \in QueueIds :
        /\ ~ (InCritical("M4", q) /\ InCritical("M7", q))
        /\ \A c \in Cores : holder[q] = c <=> InCritical(c, q)
        /\ (\A c \in Cores : pc[c].op \in {"idle", "setup", "next"})
               => holder[q] = "none"

\* M4 has the lock of m7EventQueue for a push while M7 has come to the end of an
\* operation and waits to pop the same queue
C15_Witness ==
    /\ InCritical("M4", "m7")
    /\ pc["M4"].op = "push"
    /\ pc["M7"].op = "idle"
    /\ nPopped["m7"] > 0
    /\ ~ ENABLED BeginPop("M7")

\* C16: neither core blocks on the other: setup() on M4 comes to its end, and M4
\* reaches loop(), even if M7 never makes progress
C16_M4SetupCompletes == <>running

\* M4 is in the wait of its setup() while M7 has not made a step
C16_Witness ==
    /\ ~ running
    /\ pc["M7"].op = "setup"
    /\ QEmpty(queue["m4"])
    /\ ~ ENABLED <<M4Setup>>_vars

\* C17: a pop on an empty queue returns "empty" in the one step of its body and
\* changes nothing: the indices, the count and the slots of its queue and the whole of
\* the other queue are as before
C17_PopEmptyFrame ==
    [][\A c \in Cores :
          (PopReturns(c) /\ QEmpty(queue[OwnQueue(c)])) =>
              /\ ~ out'[c].ok
              /\ pc'[c] = Idle
              /\ queue' = queue
              /\ \A q \in QueueIds : QCount(queue'[q]) = QCount(queue[q])
              /\ UNCHANGED <<pending, nPopped, nAccepted>>]_vars

\* M4 is in the body of a pop on its queue, which it has emptied before (the read
\* index has moved), while m7EventQueue holds records
C17_Witness ==
    /\ pc["M4"].op = "pop"
    /\ QEmpty(queue["m4"])
    /\ queue["m4"].readIndex # 0
    /\ nPopped["m4"] > 0
    /\ QCount(queue["m7"]) > 0

\* C18: the two directions are independent: a push into one queue by sendToM4 or
\* sendToM7 and a pop on one queue leave the other queue as it was, and a push into
\* a queue that is not full is accepted whatever the other queue holds
C18_Independent ==
    [][\A c \in Cores, q \in QueueIds :
          /\ (PushReturns(c, q) \/ (PopReturns(c) /\ pc[c].q = q)) =>
                 \A p \in QueueIds \ {q} :
                     /\ queue'[p] = queue[p]
                     /\ pending'[p] = pending[p]
          /\ (PushReturns(c, q) /\ ~ QFull(queue[q])) =>
                 /\ nAccepted'[q] = nAccepted[q] + 1
                 /\ (pc[c].rest = <<>> => (pc'[c] = Idle /\ lastResult'[c] = lastResult[c]))]_vars

\* M4 is in the body of a sendToM7 push while m4EventQueue is full and m7EventQueue
\* is not
C18_Witness ==
    /\ pc["M4"].op = "push"
    /\ pc["M4"].q = "m7"
    /\ QFull(queue["m4"])
    /\ ~ QFull(queue["m7"])
    /\ QCount(queue["m4"]) = QUEUE_SIZE

-----------------------------------------------------------------------------
(* Properties of the balance loop, checked under SpecBalance *)

\* the observers registered with the BalanceIMU
Registered == {observers[i] : i \in 1 .. Len(observers)}

\* the callbacks of one kind that the last update() made to observer o
CallsTo(o, kind) ==
    {i \in 1 .. Len(calls) : calls[i].obs = o /\ calls[i].kind = kind}

\* the zero-velocity commands the last update() issued to motor m
Stops(m) == {i \in 1 .. Len(cmds) : cmds[i] = [motor |-> m, vel |-> 0]}

\* a step that is one call of update()
UpdateStep == nUpdates' = nUpdates + 1

\* C5: every push that is refused because the queue is full is signalled by its
\* caller: a handler in which a push was refused changes the fault indicator
C5_DropSignalled == [][dropped' > 0 => ledRedBlinks' # ledRedBlinks]_vars

\* C6: the interlock latch.  An emergency notification leaves the interlock
\* stopped; an update() (the only source of notifications) that finds it stopped
\* leaves it stopped; a tilt-change notification reaches the control section
\* exactly when the latch is clear, and issues no command either way; the latch
\* is cleared only by a resetEmergencyStop() step
C6_Latch == [][
    /\ UpdateStep =>
          /\ emergencyStopActive => emergencyStopActive'
          /\ CallsTo("motorController", "emergency")' # {} => emergencyStopActive'
          /\ \A i \in CallsTo("motorController", "tiltChange")' :
                calls'[i].acted = ~ emergencyStopActive
          /\ CallsTo("motorController", "emergency")' = {} => cmds' = <<>>
    /\ (emergencyStopActive /\ ~ emergencyStopActive') =>
          UNCHANGED <<chanVars, observers, updVars>>
    ]_vars

\* an update() after a reset: the one before had latched the stop, this one found the
\* latch clear and its tilt-change notification reached the control section
C6_Witness ==
    /\ nUpdates = 2
    /\ lastReadOK
    /\ IsEmergency(prevTilt)
    /\ "motorController" \in Registered
    /\ ~ wasStopped
    /\ \E i \in CallsTo("motorController", "tiltChange") : calls[i].acted

\* C7: every emergency notification the interlock receives issues a zero-velocity
\* command to the left and to the right motor and leaves the latch set, whether the
\* latch was clear or set before
C7_EmergencyStopsBoth == [][
    (UpdateStep /\ CallsTo("motorController", "emergency")' # {}) =>
        /\ \A m \in Motors : Stops(m)' # {}
        /\ emergencyStopActive'
    ]_vars

\* an emergency notification that found the latch already set
C7_Witness ==
    /\ wasStopped
    /\ emergencyStopActive
    /\ CallsTo("motorController", "emergency") # {}
    /\ \A m \in Motors : Stops(m) # {}

\* C8: in every update() whose new angle is beyond 45 degrees the interlock's
\* emergency callback has run (both motors commanded to stop, latch set) by the
\* time update() returns
C8_EmergencySameCycle == [][
    (UpdateStep /\ lastReadOK' /\ IsEmergency(currentTiltAngle')) =>
        /\ CallsTo("motorController", "emergency")' # {}
        /\ \A m \in Motors : Stops(m)' # {}
        /\ emergencyStopActive'
    ]_vars

\* C8, with the interlock registered: the same, for every update() made while the
\* motor controller is among the observers, whatever the queues hold
C8_WhenRegistered == [][
    (UpdateStep /\ lastReadOK' /\ IsEmergency(currentTiltAngle')
        /\ "motorController" \in Registered) =>
        /\ CallsTo("motorController", "emergency")' # {}
        /\ \A m \in Motors : Stops(m)' # {}
        /\ emergencyStopActive'
    ]_vars

\* an update() beyond the limit with the interlock registered and m7EventQueue full:
\* the broadcast was refused, the motors were stopped and the latch set all the same
C8_Witness ==
    /\ lastReadOK
    /\ IsEmergency(currentTiltAngle)
    /\ dropped > 0
    /\ QCount(queue["m7"]) = QUEUE_SIZE
    /\ CallsTo("motorController", "emergency") # {}
    /\ \A m \in Motors : Stops(m) # {}
    /\ emergencyStopActive

\* C9: the emergency notification is level-triggered: after every update() that got
\* a reading, each registered observer has had exactly one onBalanceEmergency call,
\* carrying the new angle, if the new angle is beyond 45 degrees, and none otherwise
C9_LevelTriggered ==
    lastReadOK =>
        \A o \in Registered :
            /\ Cardinality(CallsTo(o, "emergency")) =
                  (IF Abs(currentTiltAngle) > 45000 THEN 1 ELSE 0)
            /\ \A i \in CallsTo(o, "emergency") : calls[i].angle = currentTiltAngle

\* the angle stays beyond the limit and moves by less than a degree: no tilt-change
\* notification, one emergency notification to each of two observers
C9_Witness ==
    /\ lastReadOK
    /\ Abs(prevTilt) > 45000
    /\ Abs(currentTiltAngle) > 45000
    /\ Abs(currentTiltAngle - prevTilt) <= 1000
    /\ Len(observers) = 2
    /\ \A o \in Registered :
          CallsTo(o, "tiltChange") = {} /\ CallsTo(o, "emergency") # {}

\* C10: after every update() that got a reading, each registered observer has had
\* exactly one onTiltChange call, carrying the new angle, if the new angle differs
\* from the angle of the update before by more than one degree, and none otherwise
C10_TiltChangeThreshold ==
    lastReadOK =>
        \A o \in Registered :
            /\ Cardinality(CallsTo(o, "tiltChange")) =
                  (IF Abs(currentTiltAngle - prevTilt) > 1000 THEN 1 ELSE 0)
            /\ \A i \in CallsTo(o, "tiltChange") : calls[i].angle = currentTiltAngle

\* a change of more than a degree inside the safe range, delivered to two observers
C10_Witness ==
    /\ lastReadOK
    /\ Abs(currentTiltAngle - prevTilt) > 1000
    /\ Abs(currentTiltAngle) <= 45000
    /\ Len(observers) = 2
    /\ \A o \in Registered : Cardinality(CallsTo(o, "tiltChange")) = 1

\* C11: when the IMU read fails, update() skips the whole cycle: the filtered tilt
\* angle, the stored accelerometer and gyroscope values and the time of the last
\* update keep their values, and no observer is notified (no callback, no motor
\* command, no event in either queue, the latch as it was)
C11_ReadFailureSkips ==
    [][(UpdateStep /\ ~ lastReadOK') =>
           /\ UNCHANGED <<currentTiltAngle, reading, lastUpdateTime>>
           /\ calls' = <<>>
           /\ cmds' = <<>>
           /\ UNCHANGED <<queue, emergencyStopActive, observers>>]_vars

\* a read fails with an observer registered, after an update that left an angle
\* beyond the emergency limit, a reading and a time
C11_Witness ==
    /\ nUpdates = 2
    /\ ~ lastReadOK
    /\ observers # <<>>
    /\ IsEmergency(currentTiltAngle)
    /\ reading.gyro # 0
    /\ lastUpdateTime > 0
    /\ calls = <<>>

\* the observers called by the callbacks of one kind in cs, in call order
CalledObservers(cs, kind) ==
    LET sel == SelectSeq(cs, LAMBDA c : c.kind = kind)
    IN  [i \in 1 .. Len(sel) |-> sel[i].obs]

\* C12: dispatch is synchronous and in registration order: the callbacks of one
\* update() are, for each kind of notification made, one call per registered observer
\* in the order of registration, the tilt-change calls before the emergency calls, and
\* all of them have run when update() returns
C12_RegistrationOrder ==
    lastReadOK =>
        /\ CalledObservers(calls, "tiltChange") \in {<<>>, observers}
        /\ CalledObservers(calls, "emergency") \in {<<>>, observers}
        /\ \A i, j \in 1 .. Len(calls) :
               (calls[i].kind = "tiltChange" /\ calls[j].kind = "emergency") => i < j
        /\ (observers # <<>> /\ TiltChanged(currentTiltAngle, prevTilt))
               => CalledObservers(calls, "tiltChange") = observers
        /\ (observers # <<>> /\ IsEmergency(currentTiltAngle))
               => CalledObservers(calls, "emergency") = observers

\* an update() with two observers registered made both kinds of notification
C12_Witness ==
    /\ lastReadOK
    /\ Len(observers) = 2
    /\ Len(calls) = 4
    /\ calls[1].obs # calls[2].obs

-----------------------------------------------------------------------------
(* Properties of the observer table, checked under SpecRegistry *)

\* s is t or t with entries appended
IsPrefix(t, s) == Len(t) <= Len(s) /\ SubSeq(s, 1, Len(t)) = t

\* C13: addObserver returns false and leaves the table as it was when the observer
\* is null or the table already holds MAX_OBSERVERS entries, and otherwise appends
\* the observer after the existing ones; the table never holds more than
\* MAX_OBSERVERS entries, every entry below the count is non-null, and no registered
\* entry is removed, replaced or moved
C13_AddObserver ==
    /\ [](Len(observers) <= MAX_OBSERVERS
           /\ \A i \in 1 .. Len(observers) : observers[i] # "null")
    /\ [][IsPrefix(observers, observers')]_vars
    /\ [][nAdds' = nAdds + 1 =>
             IF lastAdd'.arg = "null" \/ Len(observers) >= MAX_OBSERVERS
             THEN ~ lastAdd'.ok /\ observers' = observers
             ELSE lastAdd'.ok /\ observers' = Append(observers, lastAdd'.arg)]_vars

\* a call with a real observer was refused by a full table, after a null observer
\* had been refused too (six calls, four of them accepted)
C13_Witness ==
    /\ Len(observers) = MAX_OBSERVERS
    /\ nAdds = MaxAdds
    /\ lastAdd.arg = "motorController"
    /\ ~ lastAdd.ok
    /\ observers[MAX_OBSERVERS] = "eventObserver"

-----------------------------------------------------------------------------
(* The emergency broadcast, checked under SpecBalance *)

\* the EMERGENCY_STOP records accepted by queue q and not yet popped
EmergencyPending(pend, q) ==
    Len(SelectSeq(pend[q], LAMBDA r : r.type = "EMERGENCY_STOP"))

\* C19: critical events reach both cores: an update() that delivers an emergency
\* notification to the event bridge leaves one more EMERGENCY_STOP record in
\* m4EventQueue and one more in m7EventQueue, where the two loops will pop them
C19_EmergencyReachesBoth ==
    [][(UpdateStep /\ \E i \in 1 .. Len(calls') :
                         /\ calls'[i].obs = "eventObserver"
                         /\ calls'[i].kind = "emergency") =>
           \A q \in QueueIds :
               EmergencyPending(pending', q) = EmergencyPending(pending, q) + 1]_vars

\* the event bridge got an emergency notification in an update() that had a push
\* refused: m7EventQueue holds six unconsumed records, and m4EventQueue got its
\* EMERGENCY_STOP record
C19_Witness ==
    /\ lastReadOK
    /\ CallsTo("eventObserver", "emergency") # {}
    /\ dropped > 0
    /\ QCount(queue["m7"]) = QUEUE_SIZE
    /\ EmergencyPending(pending, "m4") > 0

-----------------------------------------------------------------------------
(* Properties of the ToF bring-up, checked under SpecToF *)

\* C20: from the start of the bring-up on, two sensors are never out of reset while
\* both answer at the default address 0x29, and no bus command goes to 0x29 while
\* more than one sensor answers it, also when the first sensor's initialization
\* fails; the sequence runs once and is not entered again
C20_NoSharedAddress ==
    /\ [](tofPc # <<"start">> =>
             /\ Cardinality(Answering(DEFAULT_ADDRESS)) <= 1
             /\ (busCmd.addr = DEFAULT_ADDRESS => Cardinality(busCmd.answering) <= 1))
    /\ [][tofPc # <<"start">> => tofPc' # <<"start">>]_vars

\* the rear sensor's address write failed and left it out of reset at 0x29; the
\* front sensor was then released, and its address write went to both
C20_Witness ==
    /\ ~ tofInitialized["rear"]
    /\ Answering(DEFAULT_ADDRESS) = Sensors
    /\ busCmd = [addr |-> DEFAULT_ADDRESS, answering |-> Sensors]
    /\ tofPc = <<"front", "finish">>

-----------------------------------------------------------------------------
(* Properties of the ToF polling, checked under SpecToF *)

\* the last update() reached readDistance() and the measurement was ready and read
PolledReady ==
    /\ lastPoll.sensor \in Sensors
    /\ tofInitialized[lastPoll.sensor]
    /\ lastPoll.m.flag = "ready"
    /\ lastPoll.m.data = "ok"

\* the ranges of the returns with a valid status
ValidRanges(returns) ==
    {returns[i].RangeMilliMeter :
        i \in {j \in 1..Len(returns) : returns[j].RangeStatus \in ValidStatuses}}

\* the least element of a non-empty set of ranges
Least(S) == CHOOSE d \in S : \A e \in S : d <= e

\* C21: when a measurement is ready and at least one of its returns has a valid
\* status, readDistance() reports the least range among the valid returns, and the
\* sensor stores it, whatever the ranges of the returns with another status.
C21_ClosestValid ==
    (PolledReady /\ ValidRanges(lastPoll.m.returns) # {})
        => /\ readDistance(lastPoll.m).ok
           /\ readDistance(lastPoll.m).distance = Least(ValidRanges(lastPoll.m.returns))
           /\ currentDistance[lastPoll.sensor] = Least(ValidRanges(lastPoll.m.returns))

\* the first update() of an initialized sensor found one return, valid, at
\* NO_TARGET_DISTANCE: readDistance() returned false and the reading is still -1.0
C21_Witness ==
    /\ PolledReady
    /\ nPolls = 1
    /\ lastPoll.m.returns = <<Return("RANGE_VALID", NO_TARGET_DISTANCE)>>
    /\ ~ readDistance(lastPoll.m).ok
    /\ currentDistance[lastPoll.sensor] = -1

\* this step is one ToFSensor::update() call
PollStep == nPolls' = nPolls + 1

\* this step calls the obstacle observer of sensor s with distance d: its
\* PROXIMITY_WARNING is accepted by m7EventQueue, or refused by it
ObstacleNotified(s, d) ==
    \/ /\ nAccepted'["m7"] = nAccepted["m7"] + 1
       /\ pending'["m7"] = Append(pending["m7"], [type |-> "PROXIMITY_WARNING",
                                                  text |-> <<s, "%.0f", d>>])
    \/ /\ dropped' = 1
       /\ pending' = pending

\* this step calls no obstacle observer
NoObstacleNotified ==
    /\ nAccepted' = nAccepted
    /\ pending' = pending
    /\ dropped' = 0

\* C22: when the measurement is ready and none of its returns has a valid status
\* (there may be no return at all), readDistance() returns false and writes no
\* distance, the sensor's stored distance is unchanged and no obstacle observer is
\* called.
C22_NoValidReturn ==
    [][(PollStep /\ PolledReady' /\ ValidRanges(lastPoll'.m.returns) = {})
          => /\ ~ readDistance(lastPoll'.m).ok
             /\ readDistance(lastPoll'.m).distance = NoData
             /\ currentDistance' = currentDistance
             /\ NoObstacleNotified]_vars

\* a sensor that had read 15 mm got a measurement whose only return has failed, at
\* 10 mm, and still reads 15 mm
C22_Witness ==
    /\ PolledReady
    /\ lastPoll.m.returns = <<Return("SIGNAL_FAIL", 10)>>
    /\ currentDistance[lastPoll.sensor] = 15

\* C23: when the data-ready flag is clear, or reading it fails, readDistance()
\* returns false after that one check, without starting a measurement, and update()
\* changes nothing of the sensor and calls no observer.
C23_NonBlockingPoll ==
    [][(PollStep /\ tofInitialized[lastPoll'.sensor] /\ lastPoll'.m.flag # "ready")
          => /\ ~ readDistance(lastPoll'.m).ok
             /\ ~ readDistance(lastPoll'.m).restarted
             /\ currentDistance' = currentDistance
             /\ tofInitialized' = tofInitialized
             /\ NoObstacleNotified]_vars

\* a sensor that had read 15 mm, below its threshold, was polled with the flag clear
C23_Witness ==
    /\ lastPoll.sensor \in Sensors
    /\ tofInitialized[lastPoll.sensor]
    /\ lastPoll.m = FlagClear
    /\ currentDistance[lastPoll.sensor] = 15
    /\ Len(pending["m7"]) > 0
    /\ pending["m7"][Len(pending["m7"])].type = "PROXIMITY_WARNING"

\* the last update() of sensor s stored a distance: the sensor was initialized and
\* readDistance() returned true
ReadSucceeds(s, m) == tofInitialized[s] /\ readDistance(m).ok

\* C24: every sensor reads -1.0 until its first update() in which readDistance()
\* returns true; an update() whose read succeeds stores the distance read, which is
\* not -1.0, and nothing else changes a sensor's reading: not an update() without new
\* data, not an update() of the other sensor, not any other step.
C24_ReadingKept ==
    /\ [](nPolls = 0 => \A s \in Sensors : currentDistance[s] = -1)
    /\ [][\A s \in Sensors :
             IF PollStep /\ lastPoll'.sensor = s /\ ReadSucceeds(s, lastPoll'.m)
             THEN /\ currentDistance'[s] = readDistance(lastPoll'.m).distance
                  /\ currentDistance'[s] # -1
             ELSE currentDistance'[s] = currentDistance[s]]_vars

\* a sensor read 15 mm (its warning is in m7EventQueue), then 20 mm, and was then
\* polled with the flag clear: it reads 20 mm
C24_Witness ==
    /\ nPolls = 3
    /\ lastPoll.sensor \in Sensors
    /\ lastPoll.m = FlagClear
    /\ currentDistance[lastPoll.sensor] = ObstacleThreshold
    /\ \E i \in 1..Len(pending["m7"]) :
           pending["m7"][i] = [type |-> "PROXIMITY_WARNING",
                               text |-> <<lastPoll.sensor, "%.0f", 15>>]

-----------------------------------------------------------------------------
(* Properties of the obstacle thresholds, checked under SpecObstacle *)

\* C25: an update() whose read succeeds calls the sensor's own observer with the
\* distance read exactly when that distance is strictly below that observer's
\* threshold; the other sensor's observer and threshold play no part, and a sensor
\* without observer calls nothing.
C25_OwnThreshold ==
    [][(PollStep /\ ReadSucceeds(lastPoll'.sensor, lastPoll'.m))
          => LET s == lastPoll'.sensor
                 d == readDistance(lastPoll'.m).distance
             IN  IF tofObserver[s].set /\ d < tofObserver[s].threshold
                 THEN ObstacleNotified(s, d)
                 ELSE NoObstacleNotified]_vars

\* both sensors read 20 mm; the front sensor, whose observer has threshold 100, has
\* sent its warning, the rear sensor, with threshold 20, none; the front sensor has
\* then lost its observer and read 15 mm without a warning
C25_Witness ==
    /\ tofObserver = [rear |-> ObserverWith(ObstacleThreshold), front |-> NoObserver]
    /\ currentDistance = [rear |-> ObstacleThreshold, front |-> 15]
    /\ lastPoll = [sensor |-> "front", m |-> Ready(<<Return("RANGE_VALID", 15)>>)]
    /\ \E i \in 1..Len(pending["m7"]) :
           pending["m7"][i].text = <<"front", "%.0f", ObstacleThreshold>>
    /\ \A i \in 1..Len(pending["m7"]) :
           pending["m7"][i].type = "PROXIMITY_WARNING" => pending["m7"][i].text[1] = "front"

-----------------------------------------------------------------------------
(* Properties of the subsystem start-up, checked under SpecStartup *)

\* C26: a subsystem whose initialize() returned false is never polled afterwards:
\* no update() of an IMU that failed to initialize reads the hardware, and an update()
\* of a ToF sensor that failed to initialize sends no bus command and stores no
\* distance, while loop() goes on for the others.
C26_FailedNeverPolled ==
    /\ [](imuInit = "failed" => nUpdates = 0)
    /\ [][(PollStep /\ ~ tofInitialized[lastPoll'.sensor])
             => (busCmd' = busCmd /\ currentDistance' = currentDistance)]_vars

\* balanceIMU.initialize() returned false, the rear ToF sensor failed too, and loop()
\* has called balanceIMU.update(), which read the IMU, and polled both ToF sensors
C26_Witness ==
    /\ imuInit = "failed"
    /\ nUpdates > 0
    /\ ~ tofInitialized["rear"]
    /\ tofInitialized["front"]
    /\ currentDistance = [rear |-> -1, front |-> 15]
    /\ lastPoll.sensor = "rear"

-----------------------------------------------------------------------------
(* Properties of the tilt estimate, checked under SpecBalance *)

\* C27: whatever readings and time deltas the updates got, getTiltAngle() returns an
\* angle within -90 and +90 degrees.
C27_TiltWithinRange ==
    -90000 <= currentTiltAngle /\ currentTiltAngle <= 90000

\* two updates in a row got a level accelerometer reading and a gyroscope rate of
\* 1 rad/s, each one second after the last: the estimate is beyond 90 degrees
C27_Witness ==
    /\ nUpdates = 2
    /\ lastReadOK
    /\ reading.gyro = 1000
    /\ reading.accel.atan2 = 0
    /\ prevTilt <= 90000
    /\ currentTiltAngle > 90000

-----------------------------------------------------------------------------
(* Properties of the time delta, checked under SpecClock *)

\* timestamp a is not later than timestamp b, both read as unsigned numbers
NotLater(a, b) ==
    IF (a >= 0) = (b >= 0) THEN a <= b ELSE a >= 0

\* the longest time delta that counts as small: the update period of the header
SMALL_DELTA == 10

\* C28: the time delta of an update() that got a reading is never negative, and when
\* the timestamp is not later than the one of the last update (the counter has
\* wrapped, or it is the same millisecond) the delta is a small positive time.
C28_DeltaClamped ==
    [][(UpdateStep /\ lastReadOK')
          => LET deltaTime == DeltaTime(lastUpdateTime', lastUpdateTime)
             IN  /\ deltaTime >= 0
                 /\ NotLater(lastUpdateTime', lastUpdateTime)
                       => (0 < deltaTime /\ deltaTime <= SMALL_DELTA)]_vars

\* initialize() ran five milliseconds before the counter wrapped; the first update()
\* came a second later, turning at 1 rad/s, and integrated the whole second
C28_Witness ==
    /\ imuInit = "ok"
    /\ nUpdates = 1
    /\ lastReadOK
    /\ lastUpdateTime = 995
    /\ currentTiltAngle = 56150

-----------------------------------------------------------------------------
(* Properties of the M7 timeout warning, checked under SpecWatchdog *)

\* C29: "WARNING: No M4 events" is never shown before the first event is received,
\* never in an iteration that is within five seconds of the last event, and at most
\* once in each period of ten seconds.
C29_WarningOncePerPeriod ==
    /\ eventsReceived = 0 => warnings = <<>>
    /\ (warnings # <<>> /\ warnings[Len(warnings)] = m7Millis)
          => DeltaTime(m7Millis, lastEventTime) > EVENT_TIMEOUT
    /\ \A i, j \in 1..Len(warnings) :
          i < j => warnings[i] \div (1000 * WARNING_SECONDS)
                      # warnings[j] \div (1000 * WARNING_SECONDS)

\* M7 popped its one event at 10 ms; after ten seconds of silence two iterations in
\* a row, 10 ms apart, have each shown the warning
C29_Witness ==
    /\ eventsReceived > 0
    /\ lastEventTime = 10
    /\ warnings = <<10010, 10020>>

-----------------------------------------------------------------------------
(* Properties of the event switches, checked under SpecDispatch *)

\* the pushes of this step, accepted or refused
PushesMade ==
    (nAccepted'["m4"] - nAccepted["m4"]) + (nAccepted'["m7"] - nAccepted["m7"])
        + dropped'

\* the branches of the last drain that send an event: the two cases of processM4Event
Replying(h) ==
    {i \in 1..Len(h) : h[i].core = "M4" /\ h[i].branch # "default"}

\* C30: every event a core pops is handled by one branch of the switch, the case of
\* its kind or, for every kind without a case, the default branch; the default branch
\* pushes no event and changes no control state, on either core.
C30_OneBranchPerEvent ==
    [][\A c \in Cores :
          nPopped'[OwnQueue(c)] > nPopped[OwnQueue(c)]
             => /\ Len(handled') = nPopped'[OwnQueue(c)] - nPopped[OwnQueue(c)]
                /\ \A i \in 1..Len(handled') :
                      /\ handled'[i].core = c
                      /\ handled'[i].type = pending[OwnQueue(c)][i].type
                      /\ handled'[i].branch \in {handled'[i].type, "default"}
                /\ PushesMade = Cardinality(Replying(handled'))
                /\ UNCHANGED <<running, observers, emergencyStopActive,
                               currentTiltAngle, tofInitialized>>]_vars

\* M4 popped a start-up event and a set-target command: the first took its case and
\* was answered with "M4 ready", the second took the default branch
C30_Witness ==
    /\ handled = <<[core |-> "M4", type |-> "SYSTEM_STARTUP", branch |-> "SYSTEM_STARTUP"],
                   [core |-> "M4", type |-> "SET_TARGET_POSITION", branch |-> "default"]>>
    /\ Len(pending["m7"]) > 0
    /\ pending["m7"][Len(pending["m7"])].text = <<"M4 ready">>
    /\ Cardinality({i \in 1..Len(pending["m7"]) :
                       pending["m7"][i].text = <<"M4 ready">>}) = 1

-----------------------------------------------------------------------------
(* Properties of the event text, checked under SpecPayload *)

\* a producer runs in this step
SendStep == nReports' = nReports + 1

\* the consumer gets an event in this step
ReceiveStep == nPopped'["m7"] = nPopped["m7"] + 1

\* C31: push followed by pop is a round trip on the record.  Every text a producer
\* builds fits in the payload with its terminator, so the record an accepted push
\* leaves in the queue carries the type and the text as built, no field cut short;
\* every receive buffer holds a whole payload; and a pop hands the consumer the type
\* and the text of the oldest record.
C31_PayloadRoundTrip ==
    [][/\ \A size \in ReceiveBuffers : size >= EVENT_MESSAGE_SIZE
       /\ (SendStep /\ nAccepted'["m7"] = nAccepted["m7"] + 1) =>
              /\ Len(built') + 1 <= EVENT_MESSAGE_SIZE
              /\ pending'["m7"][Len(pending'["m7"])].text = built'
       /\ ReceiveStep =>
              /\ gotEvent'.ok
              /\ gotEvent'.type = pending["m7"][1].type
              /\ gotEvent'.text = pending["m7"][1].text]_vars

\* the consumer has popped the IMU data event whose text was built last, and the text
\* it got is not the text that was built
C31_Witness ==
    /\ gotEvent.ok
    /\ gotEvent.type = "BALANCE_IMU_DATA"
    /\ pending["m7"] = <<>>
    /\ nReports > 0
    /\ Len(built) >= EVENT_MESSAGE_SIZE
    /\ gotEvent.text = SubSeq(built, 1, EVENT_MESSAGE_SIZE - 1)

-----------------------------------------------------------------------------
(* Properties of the filter at rest, checked under SpecSteady *)

\* the tolerance of convergence, 0.05 degrees, and the updates it is reached in
TOLERANCE == 50
SettleUpdates == 450

\* C32: with the gyroscope rate held at zero and the accelerometer tilt held at T
\* (0 degrees or 30 degrees), every successful update moves the filtered tilt toward
\* T and never past it, by at least a fiftieth of its distance to T (up to the
\* resolution of the arithmetic), and after a bounded number of updates the filtered
\* tilt is within the tolerance of T.
C32_ConvergesToAccelTilt ==
    /\ [](nSteady >= SettleUpdates => Abs(currentTiltAngle - steadyTilt) < TOLERANCE)
    /\ [][nSteady' = nSteady + 1 =>
            LET before == currentTiltAngle - steadyTilt'
                after == currentTiltAngle' - steadyTilt'
            IN  /\ Abs(after) <= Abs(before)
                /\ 50 * Abs(after) <= 49 * Abs(before) + 100
                /\ Abs(before) >= TOLERANCE => Abs(after) < Abs(before)
                /\ before >= 0 => after >= 0
                /\ before <= 0 => after <= 0]_vars

\* after two updates while it moved, the robot has been held at 30 degrees until the
\* filtered tilt has settled
C32_Witness ==
    /\ nSteady = SettleUpdates
    /\ steadyTilt = 30000
    /\ nUpdates = MaxUpdates
    /\ Abs(currentTiltAngle - 30000) < TOLERANCE
    /\ currentTiltAngle # prevTilt \/ currentTiltAngle # 30000

-----------------------------------------------------------------------------
(* Properties of the start-up, checked under SpecPowerOn *)

\* C33: M7 owns the initialization of the queues.  In every interleaving of the two
\* setups each queue is initialized at most once, by M7 and by no one else, no push or
\* pop runs on a queue before its initialize(), and no initialize() runs on a queue
\* that holds a pushed event.
C33_M7OwnsInitialization ==
    \A q \in QueueIds :
        /\ Len(initLog[q]) <= 1
        /\ \A i \in 1..Len(initLog[q]) : initLog[q][i].by = "M7" /\ initLog[q][i].lost = 0
        /\ ~ usedBefore[q]

\* both cores are in loop() and the start-up event that M7 pushed for M4 was wiped by
\* the initialize() that M4 called on its queue
C33_Witness ==
    /\ bootPc["M7"] = <<"loop">>
    /\ bootPc["M4"] = <<"loop">>
    /\ Len(initLog["m4"]) = 2
    /\ initLog["m4"][2] = [by |-> "M4", lost |-> 1]
    /\ nAccepted["m4"] = 1
    /\ nPopped["m4"] = 0
    /\ QEmpty(queue["m4"])

\* the M4 queue test runs
QueueTest == sketch \in {"testEarlyBoot", "testLateBoot"}

\* a turn of the wait in setup() of the M4 queue test
WaitStep == Head(bootPc["M4"]) = "wait" /\ nPopped'["m4"] = nPopped["m4"] + 1

\* C34: the start-up handshake of the queue test.  M4 goes on from the wait of its
\* setup(), to register its observer, initialize its sensors and send its first event,
\* only on an EVENT_SYSTEM_STARTUP that M7 has pushed; an event of any other type
\* popped in the wait is dropped, with M4 still waiting and nothing sent.
C34_StartupHandshake ==
    /\ []((QueueTest /\ Head(bootPc["M4"]) = "loop") =>
              /\ gotEvent = [ok |-> TRUE, type |-> "SYSTEM_STARTUP", text |-> <<"M7 ready">>]
              /\ nAccepted["m4"] >= 1)
    /\ [][(WaitStep /\ gotEvent'.type # "SYSTEM_STARTUP") =>
             /\ Head(bootPc'["M4"]) = "wait"
             /\ nAccepted' = nAccepted
             /\ dropped' = 0]_vars

\* once M7 has completed its setup() the wait of M4 ends (under SpecPowerOnFair)
StartupWaitEnds ==
    (QueueTest /\ Head(bootPc["M7"]) = "loop") ~> (Head(bootPc["M4"]) = "loop")

\* M4 is through its setup() and in loop(), on a record that was in the queue memory
\* at power-on, while M7 has not initialized the queues yet
C34_Witness ==
    /\ sketch = "testEarlyBoot"
    /\ Head(bootPc["M4"]) = "loop"
    /\ running
    /\ Head(bootPc["M7"]) = "init_m4"
    /\ initLog["m4"] = <<>>
    /\ gotEvent = [ok |-> TRUE, type |-> "SYSTEM_STARTUP", text |-> StaleItem.text]

-----------------------------------------------------------------------------
(* Properties of the collision warnings, checked under SpecCollision *)

\* updateTofSensors() runs in this step
PassStep == nIterations' = nIterations + 1

\* the sensors whose block sent a warning in this step
WarnedNow == {s \in Sensors : tofPass'[s].warned}

\* C35: the collision warnings of the hardware-validation loop are edge-triggered per
\* sensor.  updateTofSensors() sends EVENT_COLLISION_WARNING for a sensor exactly when
\* it read a distance below COLLISION_THRESHOLD with success and the sensor's detected
\* flag was false; with the flag true it sends none; the flag goes from true to false
\* only on a successful reading at or above the threshold; and a sensor that has
\* warned warns again only after such a reading.
C35_EdgeTriggeredWarnings ==
    [][PassStep =>
          /\ \A s \in Sensors :
                /\ tofPass'[s].warned <=>
                      /\ tofPass'[s].read = "ok"
                      /\ distanceMm'[s] < COLLISION_THRESHOLD
                      /\ ~ obstacleDetected[s]
                /\ obstacleDetected[s] => ~ tofPass'[s].warned
                /\ (obstacleDetected[s] /\ ~ obstacleDetected'[s]) =>
                      /\ tofPass'[s].read = "ok"
                      /\ distanceMm'[s] >= COLLISION_THRESHOLD
                /\ tofPass'[s].warned => sinceWarning[s] # "warned"
                /\ tofPass'[s].warned => obstacleDetected'[s]
          /\ (nAccepted'["m7"] - nAccepted["m7"]) + dropped' = Cardinality(WarnedNow)
          /\ \A i \in (Len(pending["m7"]) + 1) .. Len(pending'["m7"]) :
                /\ pending'["m7"][i].type = "COLLISION_WARNING"
                /\ \E s \in WarnedNow :
                      pending'["m7"][i].text = WarningText(s, distanceMm'[s])]_vars

\* the forward sensor has warned, been cleared and warns again, while the rear sensor,
\* its flag set, reads below the threshold once more and sends nothing
C35_Witness ==
    /\ nIterations >= 3
    /\ tofPass["front"].warned
    /\ nAccepted["m7"] >= 4
    /\ tofPass["rear"].was
    /\ tofPass["rear"].read = "ok"
    /\ tofPass["rear"].distance < COLLISION_THRESHOLD
    /\ ~ tofPass["rear"].warned

-----------------------------------------------------------------------------
(* Properties of loop() on M4, checked under SpecLoop *)

\* loop() on M4 runs once in this step
IterationStep == nIterations' = nIterations + 1

\* in the iteration of this step every task ran at most once, and only with its
\* interval elapsed since its last run, and the drain left m4EventQueue empty
TasksAndDrain ==
    /\ \A t \in Tasks :
          /\ loopLog'.ran[t] \in {0, 1}
          /\ loopLog'.ran[t] = 1 => loopLog'.elapsed[t] >= Interval(t)
          /\ loopLog'.ran[t] = 1 <=> lastRun'[t] = loopMillis'
    /\ QEmpty(queue'["m4"])
    /\ pending'["m4"] = <<>>
    /\ nPopped'["m4"] - nPopped["m4"] = loopLog'.waiting

\* C36 as stated: in each iteration of loop() on M4 every periodic task runs at most
\* once and only if its interval has elapsed since its last run, also across the
\* wrap of millis(); the inbound queue is drained until a pop reports empty, and
\* that takes at most QUEUE_SIZE pops
C36_AsStated ==
    [][IterationStep => (TasksAndDrain /\ loopLog'.pops <= QUEUE_SIZE)]_vars

\* C36: in each iteration of loop() on M4 every periodic task runs at most once and
\* only if its interval has elapsed since its last run, also across the wrap of
\* millis(); the inbound queue is drained until a pop reports empty, which takes the
\* pops that return the waiting events, at most QUEUE_SIZE, and one more pop, the one
\* that reports empty
C36_TasksDueAndDrainBounded ==
    [][IterationStep =>
          /\ TasksAndDrain
          /\ loopLog'.pops = loopLog'.waiting + 1
          /\ loopLog'.waiting <= QUEUE_SIZE]_vars

\* the iteration at the wrap of millis(): the balance update runs, 10 ms after its
\* last run before the wrap, the other two tasks do not, and a full queue is drained
C36_Witness ==
    /\ loopMillis = 0
    /\ lastRun["status"] = WrapEve
    /\ lastRun["balance"] = 0
    /\ loopLog.ran = [t \in Tasks |-> IF t = "balance" THEN 1 ELSE 0]
    /\ loopLog.elapsed["balance"] = BALANCE_UPDATE_INTERVAL
    /\ loopLog.waiting = QUEUE_SIZE
    /\ loopLog.pops = QUEUE_SIZE + 1

-----------------------------------------------------------------------------
(* Properties of the reset of the interlock, checked under SpecReset *)

\* this step is the update() that gets a reading after a resetEmergencyStop() call
\* made with the filtered angle beyond 45 degrees
UpdateAfterReset == UpdateStep /\ lastReadOK' /\ resetAt = nUpdates

\* the update() of this step has latched the interlock again and commanded both
\* motors to stop, and made its tilt-change calls before its emergency calls
Relatched ==
    /\ emergencyStopActive'
    /\ \A m \in Motors : Stops(m)' # {}
    /\ \A i, j \in 1 .. Len(calls') :
          (calls'[i].kind = "tiltChange" /\ calls'[j].kind = "emergency") => i < j

\* C37: a reset does not clear a danger that is still there: after a
\* resetEmergencyStop() call made while the filtered angle is beyond 45 degrees, the
\* next update() that gets a reading leaves the interlock stopped again with a stop
\* command issued to both motors, its tilt-change callbacks made before its emergency
\* callbacks
C37_ResetRelatches == [][UpdateAfterReset => Relatched]_vars

\* C37, with the interlock registered and the angle of the update still beyond 45
\* degrees
C37_WhenRegisteredAndTilted ==
    [][(UpdateAfterReset /\ "motorController" \in Registered
            /\ IsEmergency(currentTiltAngle')) => Relatched]_vars

\* C37, with the interlock registered, whatever the angle of the update
C37_WhenRegistered ==
    [][(UpdateAfterReset /\ "motorController" \in Registered) => Relatched]_vars

\* the update() after a reset made beyond the limit has run, and the interlock is
\* not stopped
C37_Witness ==
    /\ lastReadOK
    /\ resetAt = nUpdates - 1
    /\ IsEmergency(prevTilt)
    /\ ~ emergencyStopActive

\* the same with the interlock registered: the update() after the reset brought the
\* angle back under the limit
C37_WitnessRegistered ==
    /\ C37_Witness
    /\ "motorController" \in Registered
    /\ ~ IsEmergency(currentTiltAngle)

\* the update() after the reset latched the registered interlock again, after a
\* tilt-change call
C37_WitnessRelatched ==
    /\ lastReadOK
    /\ resetAt = nUpdates - 1
    /\ "motorController" \in Registered
    /\ emergencyStopActive
    /\ CallsTo("motorController", "tiltChange") # {}
    /\ CallsTo("motorController", "emergency") # {}

-----------------------------------------------------------------------------
(* Properties of the measurement restart, checked under SpecToF *)

\* the path readDistance() takes on the answer m of the sensor
ReadPath(m) ==
    IF m.flag # "ready"
    THEN "notReady"
    ELSE IF m.data # "ok"
         THEN "fetchFails"
         ELSE IF ValidRanges(m.returns) = {} THEN "noValidReturn" ELSE "validReturn"

\* C38: ranging is always re-armed.  A readDistance() call that finds the data-ready
\* flag set clears the interrupt and starts the next measurement exactly once before
\* it returns, whether the fetch of the ranging data fails, no return is valid, or a
\* valid return is reported; a call that finds the flag clear, or cannot read it,
\* issues no clear or restart.
C38_RangingRearmed ==
    [][(PollStep /\ tofInitialized[lastPoll'.sensor]) =>
          LET m == lastPoll'.m
              r == readDistance(m)
          IN  /\ ReadPath(m) \in {"fetchFails", "noValidReturn", "validReturn"} =>
                    r.restarts = 1 /\ r.restarted
              /\ ReadPath(m) = "notReady" => r.restarts = 0 /\ ~ r.restarted
              /\ r.ok => ReadPath(m) = "validReturn"]_vars

\* a sensor that has stored a distance from a valid return is polled again, the flag
\* is set and the fetch of the ranging data fails
C38_Witness ==
    /\ lastPoll.sensor \in Sensors
    /\ tofInitialized[lastPoll.sensor]
    /\ ReadPath(lastPoll.m) = "fetchFails"
    /\ readDistance(lastPoll.m).restarts = 1
    /\ currentDistance[lastPoll.sensor] = 15

-----------------------------------------------------------------------------
(* Properties of the follow-on events, checked under SpecDrain *)

\* the kinds of the events processM4Event pushes
FollowOns == {"SAFETY_ALERT", "SYSTEM_HEALTH"}

\* the follow-on events of the events popped by M4, in order
RECURSIVE Answers(_)
Answers(events) ==
    IF events = <<>>
    THEN <<>>
    ELSE (IF Head(events).type = "EMERGENCY_STOP"
          THEN <<"SAFETY_ALERT">>
          ELSE IF Head(events).type = "SYSTEM_STARTUP"
               THEN <<"SYSTEM_HEALTH">>
               ELSE <<>>) \o Answers(Tail(events))

\* the kinds of the records queue q accepted in this step, in order
AcceptedKinds(q) ==
    [i \in 1 .. (nAccepted'[q] - nAccepted[q]) |->
        pending'[q][Len(pending'[q]) - (nAccepted'[q] - nAccepted[q]) + i].type]

\* C39: event handling never feeds on itself.  A drain on M4 pushes, for every event
\* popped, at most one event: EVENT_SAFETY_ALERT for an EVENT_EMERGENCY_STOP,
\* EVENT_SYSTEM_HEALTH for an EVENT_SYSTEM_STARTUP, nothing for any other kind, all to
\* M7 and none into its own queue; a drain on M7 pushes nothing, so the handling of a
\* follow-on event pushes nothing.  With both loops running, once no more events are
\* sent both queues become empty and stay empty.
C39_NoFeedback ==
    /\ [][nPopped'["m4"] > nPopped["m4"] =>
              /\ PushesMade <= nPopped'["m4"] - nPopped["m4"]
              /\ nAccepted'["m4"] = nAccepted["m4"]
              /\ PushesMade = Len(Answers(pending["m4"]))
              /\ dropped' = 0 => AcceptedKinds("m7") = Answers(pending["m4"])
              /\ \A i \in 1 .. Len(AcceptedKinds("m7")) :
                    AcceptedKinds("m7")[i] \in FollowOns]_vars
    /\ [][nPopped'["m7"] > nPopped["m7"] => PushesMade = 0]_vars
    /\ \A k \in FollowOns : ProcessM4EventReply(Eff, k) = Eff
    /\ <>[](QEmpty(queue["m4"]) /\ QEmpty(queue["m7"]))

\* all the events have been sent; M7 has handled the EVENT_SAFETY_ALERT with which M4
\* answered an emergency stop, and both queues are empty
C39_Witness ==
    /\ sent["M4"] + sent["M7"] = MaxPosts
    /\ handled = <<[core |-> "M7", type |-> "SAFETY_ALERT", branch |-> "SAFETY_ALERT"]>>
    /\ QEmpty(queue["m4"])
    /\ QEmpty(queue["m7"])

(* Properties of the terminal display, checked under SpecTerm *)

Min(a, b) == IF a < b THEN a ELSE b

\* every character on the screen is one of the last call's text
OnlyLastText ==
    \A i \in LineIds : \A k \in 1 .. Len(lines[i]) : lines[i][k][1] = nCalls

\* C40: after any sequence of clear, print and println calls the cursor is on the
\* screen (0 <= currentLine < MAX_LINES, 0 <= currentColumn <= MAX_LINE_LENGTH) and no
\* stored line is longer than MAX_LINE_LENGTH; the loop of print ends for every text,
\* after at most one iteration per character; and a println made on a full screen clears
\* every line and then writes its text from line 0 on.
C40_DisplayInvariants ==
    /\ currentLine \in 0 .. MAX_LINES - 1
    /\ currentColumn \in 0 .. MAX_LINE_LENGTH
    /\ \A i \in LineIds : Len(lines[i]) <= MAX_LINE_LENGTH
    /\ Len(lines[currentLine]) = currentColumn
    /\ lastCall.done /\ lastCall.iterations <= Len(lastCall.text)
    /\ lastCall.op = "println" /\ lastCall.wasFull =>
           /\ OnlyLastText
           /\ lines[0] = SubSeq(lastCall.text, 1, Min(Len(lastCall.text), MAX_LINE_LENGTH))
           /\ Len(lastCall.text) < MAX_LINES * MAX_LINE_LENGTH =>
                  /\ ~ screenFull
                  /\ currentLine = Len(lastCall.text) \div MAX_LINE_LENGTH + 1
                  /\ \A i \in LineIds :
                         lines[i] = SubSeq(lastCall.text, i * MAX_LINE_LENGTH + 1,
                                           Min(Len(lastCall.text),
                                               (i + 1) * MAX_LINE_LENGTH))

\* a println of more than one line of text made on a full screen that held text
C40_Witness ==
    /\ lastCall.op = "println"
    /\ lastCall.wasFull
    /\ Len(lastCall.text) > MAX_LINE_LENGTH
    /\ nCalls >= 2

====
